---- MODULE Spec2Model ----
(***************************************************************************)
(* jsonrpcparts: the JSON-RPC 2.0 serializer and the dispatcher            *)
(* (JSONPRCApplication).  Python values are tagged records; a JSON text is *)
(* either text that does not decode or the document it decodes to.         *)
(***************************************************************************)
EXTENDS Integers, Sequences, FiniteSets, TLC

VARIABLES request_string, app, registrations, pc, requests, is_batch_mode, idx, responses,
          calls, emitted, retval, raised,
          in_batch_mode, client_requests, uuid_count, history, echo, fault,
          posted, scopes, held, wsgi

\* The state of the application and of one handle_request_string call, and
\* the register_function calls made on the application since Init.
appvars == <<request_string, app, registrations, pc, requests, is_batch_mode, idx, responses,
             calls, emitted, retval, raised>>

\* The state of a Client (_in_batch_mode, _requests), the number of ids
\* uuid4 has issued, the calls made on the client or the serializer with
\* their outcomes, the outcome of sending the last message through dumps and
\* the parser, a fault instance under construction, the bodies a WebClient
\* has posted to the server, for every `with client:` block that is open,
\* outermost first, the requests made since it began, and the lists the
\* caller has obtained from get_batched.
clientvars == <<in_batch_mode, client_requests, uuid_count, history, echo, fault,
                posted, scopes, held>>

\* wsgi holds the locals of one handle_wsgi_request call, Unset while no
\* such call is under way.
vars == <<request_string, app, registrations, pc, requests, is_batch_mode, idx, responses,
          calls, emitted, retval, raised,
          in_batch_mode, client_requests, uuid_count, history, echo, fault,
          posted, scopes, held, wsgi>>

(* ---------------------------------------------------------------- bounds *)

\* Longest top-level array among the request strings explored.
MaxBatch == 2

(* --------------------------------------------------------- Python values *)

None == [t |-> "NoneType"]
Str(s) == [t |-> "str", v |-> s]
Num(n) == [t |-> "int", v |-> n]
List(seq) == [t |-> "list", v |-> seq]
Tuple(seq) == [t |-> "tuple", v |-> seq]
Dict(f) == [t |-> "dict", v |-> f]
\* A Python set object: a value json.dumps has no encoding for.
SetObject == [t |-> "set"]
\* A string built by %-formatting: its literal and substituted pieces in order.
Text(parts) == [t |-> "text", parts |-> parts]

\* A variable that holds no value yet.
Unset == [t |-> "unset"]

\* Python truth value testing, as used by `if x:` and `x or y`.
Truthy(x) ==
    CASE x.t = "NoneType" -> FALSE
      [] x.t = "int" -> x.v # 0
      [] x.t = "str" -> x.v # ""
      [] x.t \in {"list", "tuple"} -> Len(x.v) > 0
      [] x.t = "dict" -> DOMAIN x.v # {}
      [] x.t = "text" -> Len(x.parts) > 0
      [] OTHER -> TRUE

IsString(x) == x.t \in {"str", "text"}

\* dict.get(key, None)
Get(d, key) == IF key \in DOMAIN d.v THEN d.v[key] ELSE None

(* ------------------------------------------------- outcomes of a call   *)

Return(x) == [ok |-> TRUE, value |-> x]
Raise(ex) == [ok |-> FALSE, ex |-> ex]

(* ----------------------------------------------------------- errors.py  *)

PARSE_ERROR == -32700
INVALID_REQUEST == -32600
METHOD_NOT_FOUND == -32601
INVALID_METHOD_PARAMS == -32602
INTERNAL_ERROR == -32603
PROCEDURE_EXCEPTION == -32000
AUTHENTIFICATION_ERROR == -32001
PERMISSION_DENIED == -32002
INVALID_PARAM_VALUES == -32003

ERROR_MESSAGE ==
    (PARSE_ERROR :> "Parse error.") @@
    (INVALID_REQUEST :> "Invalid Request.") @@
    (METHOD_NOT_FOUND :> "Method not found.") @@
    (INVALID_METHOD_PARAMS :> "Invalid parameters.") @@
    (INTERNAL_ERROR :> "Internal error.") @@
    (PROCEDURE_EXCEPTION :> "Procedure exception.") @@
    (AUTHENTIFICATION_ERROR :> "Authentification error.") @@
    (PERMISSION_DENIED :> "Permission denied.") @@
    (INVALID_PARAM_VALUES :> "Invalid parameter values.")

\* The subclass of RPCFault registered for each error code.
ERROR_CODE_CLASS_MAP ==
    (PARSE_ERROR :> "RPCParseError") @@
    (INVALID_REQUEST :> "RPCInvalidRequest") @@
    (METHOD_NOT_FOUND :> "RPCMethodNotFound") @@
    (INVALID_METHOD_PARAMS :> "RPCInvalidMethodParams") @@
    (INTERNAL_ERROR :> "RPCInternalError") @@
    (PROCEDURE_EXCEPTION :> "RPCProcedureException") @@
    (AUTHENTIFICATION_ERROR :> "RPCAuthentificationError") @@
    (PERMISSION_DENIED :> "RPCPermissionDenied") @@
    (INVALID_PARAM_VALUES :> "RPCInvalidParamValues")

\* The class statements of errors.py with RPCInvalidParamValues given the
\* error_code of RPCInvalidMethodParams.
FaultClassesWithSharedCode ==
    <<[name |-> "RPCParseError", error_code |-> PARSE_ERROR],
      [name |-> "RPCInvalidRequest", error_code |-> INVALID_REQUEST],
      [name |-> "RPCMethodNotFound", error_code |-> METHOD_NOT_FOUND],
      [name |-> "RPCInvalidMethodParams", error_code |-> INVALID_METHOD_PARAMS],
      [name |-> "RPCInternalError", error_code |-> INTERNAL_ERROR],
      [name |-> "RPCProcedureException", error_code |-> PROCEDURE_EXCEPTION],
      [name |-> "RPCAuthentificationError", error_code |-> AUTHENTIFICATION_ERROR],
      [name |-> "RPCPermissionDenied", error_code |-> PERMISSION_DENIED],
      [name |-> "RPCInvalidParamValues", error_code |-> INVALID_METHOD_PARAMS]>>

\* The subclasses of RPCFault with the error_code each class statement sets,
\* in the order the comprehension of ERROR_CODE_CLASS_MAP lists them.
FaultClasses ==
    <<[name |-> "RPCParseError", error_code |-> PARSE_ERROR],
      [name |-> "RPCInvalidRequest", error_code |-> INVALID_REQUEST],
      [name |-> "RPCMethodNotFound", error_code |-> METHOD_NOT_FOUND],
      [name |-> "RPCInvalidMethodParams", error_code |-> INVALID_METHOD_PARAMS],
      [name |-> "RPCInternalError", error_code |-> INTERNAL_ERROR],
      [name |-> "RPCProcedureException", error_code |-> PROCEDURE_EXCEPTION],
      [name |-> "RPCAuthentificationError", error_code |-> AUTHENTIFICATION_ERROR],
      [name |-> "RPCPermissionDenied", error_code |-> PERMISSION_DENIED],
      [name |-> "RPCInvalidParamValues", error_code |-> INVALID_PARAM_VALUES]>>

\* {klass.error_code: klass for klass in classes}: a later class replaces an
\* earlier one that has the same error_code.
ClassMapOf(classes) ==
    [code \in {classes[k].error_code : k \in 1..Len(classes)} |->
        LET last == CHOOSE k \in 1..Len(classes) :
                        /\ classes[k].error_code = code
                        /\ \A j \in 1..Len(classes) :
                               classes[j].error_code = code => j <= k
        IN  classes[last].name]

\* RPCFault.__init__ of the subclass whose error_code is `code`.
RPCFault(code, error_data, request_id, message) ==
    [t |-> "RPCFault",
     cls |-> ERROR_CODE_CLASS_MAP[code],
     error_code |-> Num(code),
     message |-> IF Truthy(message) THEN message
                 ELSE IF code \in DOMAIN ERROR_MESSAGE
                      THEN Str(ERROR_MESSAGE[code]) ELSE None,
     error_data |-> error_data,
     request_id |-> request_id]

\* RPCParseError carrying the code of RPCInvalidRequest.
RPCParseErrorWithInvalidRequestCode(error_data, request_id, message) ==
    RPCFault(INVALID_REQUEST, error_data, request_id, message)

RPCParseError(error_data, request_id, message) ==
    RPCFault(PARSE_ERROR, error_data, request_id, message)
RPCInvalidRequest(error_data, request_id, message) ==
    RPCFault(INVALID_REQUEST, error_data, request_id, message)
RPCMethodNotFound(error_data, request_id, message) ==
    RPCFault(METHOD_NOT_FOUND, error_data, request_id, message)
RPCInvalidMethodParams(error_data, request_id, message) ==
    RPCFault(INVALID_METHOD_PARAMS, error_data, request_id, message)
RPCInternalError(error_data, request_id, message) ==
    RPCFault(INTERNAL_ERROR, error_data, request_id, message)
RPCPermissionDenied(error_data, request_id, message) ==
    RPCFault(PERMISSION_DENIED, error_data, request_id, message)
RPCProcedureException(error_data, request_id, message) ==
    RPCFault(PROCEDURE_EXCEPTION, error_data, request_id, message)
RPCAuthentificationError(error_data, request_id, message) ==
    RPCFault(AUTHENTIFICATION_ERROR, error_data, request_id, message)
RPCInvalidParamValues(error_data, request_id, message) ==
    RPCFault(INVALID_PARAM_VALUES, error_data, request_id, message)

\* Any exception that is an Exception but not an RPCFault.
Exception(cls, message) == [t |-> "Exception", cls |-> cls, message |-> message]

IsRPCFault(ex) == ex.t = "RPCFault"

(* ------------------------------------------ string formatting (str % x) *)

\* `template % arg`: template is the literal pieces around its %s slots.  A
\* tuple argument supplies one value per slot; any other argument fills a
\* single slot.  A wrong number of values is a TypeError.
PercentFormat(template, arg) ==
    LET values == IF arg.t = "tuple" THEN arg.v ELSE <<arg>>
        slots == Len(template) - 1
    IN  IF Len(values) # slots
        THEN Raise(Exception("TypeError",
                 Str("not all arguments converted during string formatting")))
        ELSE Return(Text([k \in 1..(2 * slots + 1) |->
                 IF k % 2 = 1 THEN Str(template[(k + 1) \div 2])
                 ELSE values[k \div 2]]))

\* a + b on two strings built by formatting
Concat(a, b) == Text(a.parts \o b.parts)

(* ------------------------------------- serializers.py: JSON text <-> data *)

\* The text of a JSON document, and a text that is not JSON.
JsonText(doc) == [t |-> "jsontext", doc |-> doc]
NotJson == Str("{not json")

RECURSIVE Serializable(_)
\* What json.JSONEncoder can encode: everything here but a set object.
Serializable(x) ==
    CASE x.t \in {"list", "tuple"} -> \A k \in 1..Len(x.v) : Serializable(x.v[k])
      [] x.t = "dict" -> \A k \in DOMAIN x.v : Serializable(x.v[k])
      [] x.t = "set" -> FALSE
      [] OTHER -> TRUE

RECURSIVE Encode(_)
\* The document json.dumps writes for x: tuples become arrays.
Encode(x) ==
    CASE x.t \in {"list", "tuple"} -> List([k \in 1..Len(x.v) |-> Encode(x.v[k])])
      [] x.t = "dict" -> Dict([k \in DOMAIN x.v |-> Encode(x.v[k])])
      [] OTHER -> x

json_dumps(obj) ==
    IF Serializable(obj) THEN Return(JsonText(Encode(obj)))
    ELSE Raise(Exception("TypeError", Str("set([]) is not JSON serializable")))

json_loads(s) ==
    IF s.t = "jsontext" THEN Return(s.doc)
    ELSE Raise(Exception("ValueError", Str("No JSON object could be decoded")))

(* --------------------------------- serializers.py: JSONRPC20Serializer   *)

\* str(uuid.uuid4()): the n-th id issued.  uuid4 is taken at its word, every
\* id it issues is new.
Uuids == <<"8f14e45f", "c9f0f895", "45c48cce", "d3d94468", "6512bd43", "c20ad4d7">>
uuid4(n) == Str(Uuids[n])

\* assemble_request that tests `params is not None` where the code tests the
\* truth value of params.
assemble_request_params_not_none(method, params, notification, n) ==
    IF method.t # "str"
    THEN Raise(Exception("TypeError",
                   Str("\"method\" must be a string (or unicode string).")))
    ELSE IF params # None /\ params.t \notin {"tuple", "list", "dict"}
    THEN Raise(Exception("TypeError",
                   Str("params must be a tuple/list/dict or None.")))
    ELSE Return(Dict(
             (IF params # None THEN "params" :> params ELSE <<>>) @@
             (IF ~notification THEN "id" :> uuid4(n) ELSE <<>>) @@
             [jsonrpc |-> Str("2.0"), method |-> method]))

\* assemble_request(method, params, notification); n is the number of the id
\* uuid4 issues if one is needed.
assemble_request(method, params, notification, n) ==
    IF method.t # "str"
    THEN Raise(Exception("TypeError",
                   Str("\"method\" must be a string (or unicode string).")))
    ELSE IF Truthy(params) /\ params.t \notin {"tuple", "list", "dict"}
    THEN Raise(Exception("TypeError",
                   Str("params must be a tuple/list/dict or None.")))
    ELSE Return(Dict(
             (IF Truthy(params) THEN "params" :> params ELSE <<>>) @@
             (IF ~notification THEN "id" :> uuid4(n) ELSE <<>>) @@
             [jsonrpc |-> Str("2.0"), method |-> method]))

assemble_response(result, request_id) ==
    Dict([jsonrpc |-> Str("2.0"), result |-> result, id |-> request_id])

\* assemble_error_response that tests the truth value of error_data where
\* the code tests `error_data is None`.
assemble_error_response_data_if_truthy(error) ==
    IF ~Truthy(error.error_data)
    THEN Dict([jsonrpc |-> Str("2.0"),
               error |-> Dict([code |-> error.error_code,
                               message |-> error.message]),
               id |-> error.request_id])
    ELSE Dict([jsonrpc |-> Str("2.0"),
               error |-> Dict([code |-> error.error_code,
                               message |-> error.message,
                               data |-> error.error_data]),
               id |-> error.request_id])

\* Every caller passes an RPCFault instance, so the isinstance guard (which
\* raises ValueError otherwise) never fires.
assemble_error_response(error) ==
    IF error.error_data = None
    THEN Dict([jsonrpc |-> Str("2.0"),
               error |-> Dict([code |-> error.error_code,
                               message |-> error.message]),
               id |-> error.request_id])
    ELSE Dict([jsonrpc |-> Str("2.0"),
               error |-> Dict([code |-> error.error_code,
                               message |-> error.message,
                               data |-> error.error_data]),
               id |-> error.request_id])

\* (method, params, request_id, error): one parsed request
Envelope(method, params, request_id, error) ==
    [method |-> method, params |-> params, request_id |-> request_id,
     error |-> error]

parse_single_request(request_data) ==
    IF request_data.t # "dict"
    THEN \* request_data.get on a value that is no dict
         Raise(Exception("AttributeError",
                   Str("object has no attribute 'get'")))
    ELSE
    LET request_id == Get(request_data, "id")
        has(k) == k \in DOMAIN request_data.v
    IN  IF ~has("jsonrpc")
        THEN Raise(RPCInvalidRequest(Str("argument \"jsonrpc\" missing."),
                                     request_id, None))
        ELSE IF ~IsString(request_data.v["jsonrpc"])
        THEN Raise(RPCInvalidRequest(
                 Str("value of argument \"jsonrpc\" must be a string."),
                 request_id, None))
        ELSE IF ~has("method")
        THEN Raise(RPCInvalidRequest(Str("argument \"method\" missing."),
                                     request_id, None))
        ELSE IF ~IsString(request_data.v["method"])
        THEN Raise(RPCInvalidRequest(
                 Str("value of argument \"method\" must be a string."),
                 request_id, None))
        ELSE IF request_data.v["jsonrpc"] # Str("2.0")
        THEN Raise(RPCInvalidRequest(Str("Invalid jsonrpc version."),
                                     request_id, None))
        ELSE IF has("params")
                /\ request_data.v["params"].t \notin {"list", "tuple", "dict"}
        THEN Raise(RPCInvalidMethodParams(
                 Str("value of argument \"parameter\" is of non-supported type"),
                 request_id, None))
        ELSE Return(<<request_data.v["method"], Get(request_data, "params"),
                      request_id>>)

\* parse_single_request_trap_errors returning None in place of the fault's
\* request_id.
parse_single_request_trap_errors_dropping_id(request_data) ==
    LET r == parse_single_request(request_data)
    IN  IF r.ok
        THEN Return(Envelope(r.value[1], r.value[2], r.value[3], None))
        ELSE IF IsRPCFault(r.ex)
        THEN Return(Envelope(None, None, None, r.ex))
        ELSE r

parse_single_request_trap_errors(request_data) ==
    LET r == parse_single_request(request_data)
    IN  IF r.ok
        THEN Return(Envelope(r.value[1], r.value[2], r.value[3], None))
        ELSE IF IsRPCFault(r.ex)
        THEN Return(Envelope(None, None, r.ex.request_id, r.ex))
        ELSE r

\* Returns <<requests, is_batch_mode>> or raises.
parse_request(s) ==
    LET loaded == json_loads(s)
    IN  IF ~loaded.ok
        THEN Raise(RPCParseError(
                 PercentFormat(<<"No valid JSON. (", ")">>, loaded.ex.message).value,
                 None, None))
        ELSE
        LET batch == loaded.value
        IN  IF batch.t \in {"list", "tuple"} /\ Truthy(batch)
            THEN LET each == [k \in 1..Len(batch.v) |->
                                 parse_single_request_trap_errors(batch.v[k])]
                     bad == {k \in 1..Len(batch.v) : ~each[k].ok}
                 IN  IF bad # {}
                     THEN each[CHOOSE k \in bad : \A j \in bad : k <= j]
                     ELSE Return(<<[k \in 1..Len(batch.v) |-> each[k].value],
                                   TRUE>>)
            ELSE IF batch.t = "dict"
            THEN LET one == parse_single_request_trap_errors(batch)
                 IN  IF one.ok THEN Return(<<(<<one.value>>), FALSE>>) ELSE one
            ELSE Raise(RPCInvalidRequest(
                     Str("Neither a batch array nor a single request object found in the request."),
                     None, None))

\* (result, request_id, error): one parsed response
ResponseEntry(result, request_id, error) ==
    [result |-> result, request_id |-> request_id, error |-> error]

\* FaultFromError without the lookup in ERROR_CODE_CLASS_MAP: every error
\* member becomes a plain RPCFault that carries the code and the message.
FaultFromErrorAlwaysGeneric(error, request_id) ==
    Raise([t |-> "RPCFault", cls |-> "RPCFault",
           error_code |-> error.v["code"],
           message |-> error.v["message"],
           error_data |-> Get(error, "data"),
           request_id |-> request_id])

\* The fault _parse_single_response raises for a well-shaped error member:
\* an instance of the class registered for the code, else a plain RPCFault
\* that is given the code and the message.  A code that is a list or an
\* object cannot be looked up in a dict.
FaultFromError(error, request_id) ==
    LET code == error.v["code"]
    IN  IF code.t \in {"list", "dict"}
        THEN Raise(Exception("TypeError", Str("unhashable type")))
        ELSE IF code.t = "int" /\ code.v \in DOMAIN ERROR_CODE_CLASS_MAP
        THEN Raise(RPCFault(code.v, Get(error, "data"), request_id, None))
        ELSE Raise([t |-> "RPCFault", cls |-> "RPCFault",
                    error_code |-> code,
                    message |-> error.v["message"],
                    error_data |-> Get(error, "data"),
                    request_id |-> request_id])

parse_single_response(response_data) ==
    IF response_data.t # "dict"
    THEN Raise(RPCInvalidRequest(Str("No valid RPC-package."), None, None))
    ELSE IF "id" \notin DOMAIN response_data.v
    THEN Raise(RPCInvalidRequest(Str("Invalid Response, \"id\" missing."),
                                 None, None))
    ELSE
    LET request_id == response_data.v["id"]
        error == Get(response_data, "error")
        result == Get(response_data, "result")
    IN  IF "jsonrpc" \notin DOMAIN response_data.v
        THEN Raise(RPCInvalidRequest(
                 Str("Invalid Response, \"jsonrpc\" missing."), request_id, None))
        ELSE IF ~IsString(response_data.v["jsonrpc"])
        THEN Raise(RPCInvalidRequest(
                 Str("Invalid Response, \"jsonrpc\" must be a string."), None, None))
        ELSE IF response_data.v["jsonrpc"] # Str("2.0")
        THEN Raise(RPCInvalidRequest(Str("Invalid jsonrpc version."),
                                     request_id, None))
        ELSE IF Truthy(error) /\ Truthy(result)
        THEN Raise(RPCInvalidRequest(
                 Str("Invalid Response, only \"result\" OR \"error\" allowed."),
                 request_id, None))
        ELSE IF Truthy(error)
        THEN IF error.t # "dict"
             THEN Raise(RPCInvalidRequest(
                      Str("Invalid Response, invalid error-object."),
                      request_id, None))
             ELSE IF ~("code" \in DOMAIN error.v /\ "message" \in DOMAIN error.v)
             THEN Raise(RPCInvalidRequest(
                      Str("Invalid Response, invalid error-object."),
                      request_id, None))
             ELSE FaultFromError(error, request_id)
        ELSE Return(<<result, request_id>>)

parse_single_response_trap_errors(response_data) ==
    LET r == parse_single_response(response_data)
    IN  IF r.ok
        THEN Return(ResponseEntry(r.value[1], r.value[2], None))
        ELSE IF IsRPCFault(r.ex)
        THEN Return(ResponseEntry(None, r.ex.request_id, r.ex))
        ELSE r

\* Returns <<responses, is_batch_mode>> or raises.
parse_response(s) ==
    LET loaded == json_loads(s)
    IN  IF ~loaded.ok
        THEN Raise(RPCParseError(
                 PercentFormat(<<"No valid JSON. (", ")">>, loaded.ex.message).value,
                 None, None))
        ELSE
        LET batch == loaded.value
        IN  IF batch.t \in {"list", "tuple"} /\ Truthy(batch)
            THEN LET each == [k \in 1..Len(batch.v) |->
                                 parse_single_response_trap_errors(batch.v[k])]
                     bad == {k \in 1..Len(batch.v) : ~each[k].ok}
                 IN  IF bad # {}
                     THEN each[CHOOSE k \in bad : \A j \in bad : k <= j]
                     ELSE Return(<<[k \in 1..Len(batch.v) |-> each[k].value],
                                   TRUE>>)
            ELSE IF batch.t = "dict"
            THEN LET one == parse_single_response_trap_errors(batch)
                 IN  IF one.ok THEN Return(<<(<<one.value>>), FALSE>>) ELSE one
            ELSE Raise(RPCParseError(
                     Str("Neither a batch array nor a single response object found in the response."),
                     None, None))

(* ------------------------------------------------ registered callables  *)

RECURSIVE SumOf(_)
SumOf(seq) == IF seq = <<>> THEN 0 ELSE Head(seq).v + SumOf(Tail(seq))

EmptyDict == Dict([k \in {} |-> None])

\* Names the application registers, and a name it does not.
Registered == {"adder", "blow_up", "lookup", "deny", "get_misshaped_objects"}
Unregistered == "ghost"

\* The outcomes a call of the callable can have: method(*args, **kwargs).
\*   adder(*args)             returns sum(args)
\*   blow_up(*args, **kwargs) raises MyTestException('Blowing up on command')
\*   lookup                   misses a dict entry keyed by a pair: KeyError((2, 3))
\*   deny                     raises the fault RPCPermissionDenied, with or without data
\*   get_misshaped_objects    returns a list holding a set
\*   describe(*args, **kwargs) returns [list(args), kwargs]
CallOutcomes(callable, args, kwargs) ==
    CASE callable = "adder" ->
             IF Truthy(kwargs)
             THEN {Raise(Exception("TypeError",
                       Str("adder() got an unexpected keyword argument")))}
             ELSE {Return(Num(SumOf(args.v)))}
      [] callable = "blow_up" ->
             {Raise(Exception("MyTestException", Str("Blowing up on command")))}
      [] callable = "lookup" ->
             {Raise(Exception("KeyError", Tuple(<<Num(2), Num(3)>>)))}
      [] callable = "deny" ->
             {Raise(RPCPermissionDenied(d, None, None)) : d \in {None, Str("no access")}}
      [] callable = "get_misshaped_objects" ->
             {Return(List(<<SetObject>>))}
      [] callable = "describe" ->
             {Return(List(<<List(args.v), kwargs>>))}

(* ------------------------------------- application.py: process_requests *)

\* ArgsOf without the isinstance(params, dict) test: a mapping is passed as
\* the positional arguments.
ArgsOfWithoutDictTest(params) ==
    IF Truthy(params) THEN params ELSE List(<<>>)

\* The positional and the keyword arguments process_requests derives from params.
ArgsOf(params) ==
    IF params.t = "dict" THEN List(<<>>)
    ELSE IF Truthy(params) THEN params ELSE List(<<>>)

KwargsOf(params) == IF params.t = "dict" THEN params ELSE EmptyDict

\* ErrorBranch without the test of error.request_id: every validation error
\* is answered.
ErrorBranchAnswersAll(item) == <<assemble_error_response(item.error)>>

\* An item that carries a request message validation error: the responses
\* this iteration appends.
ErrorBranch(item) ==
    IF Truthy(item.error.request_id)
    THEN <<assemble_error_response(item.error)>>
    ELSE <<>>

\* An item whose method is not in the collection.
NotFoundBranch(item) ==
    IF Truthy(item.request_id)
    THEN <<assemble_error_response(
             RPCMethodNotFound(
                 PercentFormat(<<"Method \"", "\" is not found.">>, item.method).value,
                 item.request_id, None))>>
    ELSE <<>>

\* The try statement around process_method, given the outcome of the call:
\* returns the responses this iteration appends, or raises what escapes the
\* except clauses.
InvokeBranch(item, outcome) ==
    IF outcome.ok
    THEN IF Truthy(item.request_id)
         THEN Return(<<assemble_response(outcome.value, item.request_id)>>)
         ELSE Return(<<>>)
    ELSE IF IsRPCFault(outcome.ex)
    THEN IF Truthy(item.request_id)
         THEN Return(<<assemble_error_response(outcome.ex)>>)
         ELSE Return(<<>>)
    ELSE IF Truthy(item.request_id)
    THEN LET head == PercentFormat(
                 <<"While processing the follwoing message (\"", "\",\"", "\",\"", "\") ">>,
                 Tuple(<<item.method, item.params, item.request_id>>))
             tail == PercentFormat(
                 <<"encountered the following error message \"", "\"">>,
                 outcome.ex.message)
         IN  IF ~head.ok THEN head
             ELSE IF ~tail.ok THEN tail
             ELSE Return(<<assemble_error_response(
                      RPCInternalError(Concat(head.value, tail.value),
                                       item.request_id, outcome.ex.message))>>)
    ELSE Return(<<>>)

(* -------------------------------------------------- the request strings *)

Absent == [t |-> "absent"]

\* The JSON object with the members that are not Absent.
Object(jsonrpc, method, params, id) ==
    LET all == [jsonrpc |-> jsonrpc, method |-> method, params |-> params,
                id |-> id]
    IN  Dict([k \in {n \in DOMAIN all : all[n] # Absent} |-> all[k]])

\* id members: none, null, a falsy number, a falsy string, a truthy string
Ids == {Absent, None, Num(0), Str(""), Str("x1")}

WellFormed ==
    {Object(Str("2.0"), Str(m), Absent, i) : m \in Registered \cup {Unregistered}, i \in Ids}
    \cup {Object(Str("2.0"), Str("adder"), List(<<Num(2), Num(3)>>), i) :
              i \in {Absent, Num(7)}}
    \cup {Object(Str("2.0"), Str("adder"), Dict([a |-> Num(1)]), Str("x1"))}

Malformed ==
    {Object(Absent, Str("adder"), Absent, i) : i \in {Absent, Num(0), Str("x1")}}
    \cup {Object(Str("2.0"), Str("adder"), Num(5), i) : i \in {Absent, Str("x1")}}

\* Array elements: request objects, and a value that is no object.
Elements == WellFormed \cup Malformed \cup {Num(5)}

RECURSIVE SeqsUpTo(_, _)
SeqsUpTo(S, n) ==
    IF n = 0 THEN {<<>>}
    ELSE LET shorter == SeqsUpTo(S, n - 1)
         IN  shorter \cup {Append(q, e) : q \in {x \in shorter : Len(x) = n - 1}, e \in S}

\* Text that is no JSON, JSON scalars, single objects, and arrays.
RequestStrings ==
    {NotJson, JsonText(Num(5)), JsonText(None), JsonText(Str("adder"))}
    \cup {JsonText(e) : e \in WellFormed \cup Malformed}
    \cup {JsonText(List(q)) : q \in SeqsUpTo(Elements, MaxBatch)}

(* ----------------------------------------------------------- the machine *)

\* No client exists and no serializer call has been made.
ClientIdle ==
    /\ in_batch_mode = FALSE
    /\ client_requests = <<>>
    /\ uuid_count = 0
    /\ history = <<>>
    /\ echo = Unset
    /\ fault = None
    /\ posted = <<>>
    /\ scopes = <<>>
    /\ held = <<>>

Init ==
    /\ request_string \in RequestStrings
    /\ app = [n \in Registered |-> n]
    /\ registrations = <<>>
    /\ wsgi = Unset
    /\ pc = "handle_request_string"
    /\ requests = <<>>
    /\ is_batch_mode = FALSE
    /\ idx = 1
    /\ responses = <<>>
    /\ calls = <<>>
    /\ emitted = <<>>
    /\ retval = Unset
    /\ raised = None
    /\ ClientIdle

\* handle_request_string returns the text a dumps call produced, or the
\* exception of that call escapes.
Finish(dumped) ==
    IF dumped.ok
    THEN retval' = dumped.value /\ raised' = raised /\ pc' = "returned"
    ELSE retval' = retval /\ raised' = dumped.ex /\ pc' = "raised"

\* 'While processing the follwoing message "%s" ' % request_string +
\* 'encountered the following error message "%s"' % ex.message
WhileProcessing(ex) ==
    LET head == PercentFormat(<<"While processing the follwoing message \"", "\" ">>,
                              request_string)
        tail == PercentFormat(<<"encountered the following error message \"", "\"">>,
                              ex.message)
    IN  IF ~head.ok THEN head
        ELSE IF ~tail.ok THEN tail
        ELSE Return(Concat(head.value, tail.value))

\* handle_request_string up to the call of process_requests.
ParseRequest ==
    /\ pc = "handle_request_string"
    /\ LET parsed == parse_request(request_string)
       IN  IF parsed.ok
           THEN /\ requests' = parsed.value[1]
                /\ is_batch_mode' = parsed.value[2]
                /\ pc' = "process_requests"
                /\ UNCHANGED <<retval, raised>>
           ELSE IF IsRPCFault(parsed.ex)
           THEN /\ Finish(json_dumps(assemble_error_response(parsed.ex)))
                /\ UNCHANGED <<requests, is_batch_mode>>
           ELSE /\ LET text == WhileProcessing(parsed.ex)
                   IN  IF text.ok
                       THEN Finish(json_dumps(assemble_error_response(
                                RPCInternalError(text.value, None, None))))
                       ELSE Finish(text)
                /\ UNCHANGED <<requests, is_batch_mode>>
    /\ UNCHANGED <<request_string, app, registrations, idx, responses, calls, emitted>>
    /\ UNCHANGED <<clientvars, wsgi>>

\* One iteration of the loop of process_requests.
ProcessRequest ==
    /\ pc = "process_requests"
    /\ idx <= Len(requests)
    /\ LET item == requests[idx]
       IN  IF Truthy(item.error)
           THEN /\ responses' = responses \o ErrorBranch(item)
                /\ emitted' = Append(emitted, ErrorBranch(item))
                /\ idx' = idx + 1
                /\ UNCHANGED <<calls, raised, pc>>
           ELSE IF item.method.v \notin DOMAIN app
           THEN /\ responses' = responses \o NotFoundBranch(item)
                /\ emitted' = Append(emitted, NotFoundBranch(item))
                /\ idx' = idx + 1
                /\ UNCHANGED <<calls, raised, pc>>
           ELSE \E outcome \in CallOutcomes(app[item.method.v],
                                            ArgsOf(item.params), KwargsOf(item.params)) :
                LET done == InvokeBranch(item, outcome)
                IN  /\ calls' = Append(calls,
                            [item |-> idx, callable |-> app[item.method.v],
                             args |-> ArgsOf(item.params),
                             kwargs |-> KwargsOf(item.params),
                             outcome |-> outcome])
                    /\ IF done.ok
                       THEN /\ responses' = responses \o done.value
                            /\ emitted' = Append(emitted, done.value)
                            /\ idx' = idx + 1
                            /\ UNCHANGED <<raised, pc>>
                       ELSE /\ raised' = done.ex
                            /\ pc' = "raised"
                            /\ UNCHANGED <<responses, emitted, idx>>
    /\ UNCHANGED <<request_string, app, registrations, requests, is_batch_mode, retval>>
    /\ UNCHANGED <<clientvars, wsgi>>

\* ReturnResponses without the except clause around the final dumps: a
\* failure of the serialization escapes.
ReturnResponsesWithoutFallback ==
    /\ pc = "process_requests"
    /\ idx > Len(requests)
    /\ IF ~Truthy(List(responses))
       THEN retval' = None /\ pc' = "returned" /\ UNCHANGED raised
       ELSE Finish(IF is_batch_mode THEN json_dumps(List(responses))
                   ELSE json_dumps(responses[1]))
    /\ UNCHANGED <<request_string, app, registrations, requests, is_batch_mode, idx, responses,
                   calls, emitted>>
    /\ UNCHANGED <<clientvars, wsgi>>

\* handle_request_string after process_requests has returned.
ReturnResponses ==
    /\ pc = "process_requests"
    /\ idx > Len(requests)
    /\ IF ~Truthy(List(responses))
       THEN retval' = None /\ pc' = "returned" /\ UNCHANGED raised
       ELSE LET dumped == IF is_batch_mode THEN json_dumps(List(responses))
                          ELSE json_dumps(responses[1])
            IN  IF dumped.ok
                THEN Finish(dumped)
                ELSE LET text == WhileProcessing(dumped.ex)
                     IN  IF text.ok
                         THEN Finish(json_dumps(assemble_error_response(
                                  RPCInternalError(text.value, None, None))))
                         ELSE Finish(text)
    /\ UNCHANGED <<request_string, app, registrations, requests, is_batch_mode, idx, responses,
                   calls, emitted>>
    /\ UNCHANGED <<clientvars, wsgi>>

Next == ParseRequest \/ ProcessRequest \/ ReturnResponses

Spec == Init /\ [][Next]_vars

(* ------------------------------------- parse_request called on its own  *)

\* Request objects with every combination of a missing, a wrong and a right
\* jsonrpc, method, params and id member.
ParseObjects ==
    {Object(j, m, p, i) :
        j \in {Absent, Str("2.0"), Str("1.0"), Num(2)},
        m \in {Absent, Str("adder"), Num(1)},
        p \in {Absent, None, Num(5), Str("asdf"), List(<<Num(2), Num(3)>>),
               Dict([a |-> Num(1)])},
        i \in {Absent, None, Num(0), Str("x1")}}

\* Array elements: right and wrong request objects, and JSON values that are
\* no object (number, string, null, array).
ParseElements ==
    {Object(Str("2.0"), Str("adder"), Absent, Str("x1")),
     Object(Str("2.0"), Str("adder"), List(<<Num(2), Num(3)>>), Absent),
     Object(Absent, Str("adder"), Absent, Str("x1")),
     Object(Str("2.0"), Absent, Absent, Num(0)),
     Object(Str("1.0"), Str("adder"), Absent, None),
     Object(Str("2.0"), Str("adder"), Num(5), Str("x1")),
     EmptyDict,
     Num(5), Str("adder"), None, List(<<>>)}

ParseStrings ==
    {NotJson, JsonText(Num(5)), JsonText(None), JsonText(Str("adder"))}
    \cup {JsonText(e) : e \in ParseObjects}
    \cup {JsonText(List(q)) : q \in SeqsUpTo(ParseElements, MaxBatch)}

InitParse ==
    /\ request_string \in ParseStrings
    /\ app = [n \in Registered |-> n]
    /\ registrations = <<>>
    /\ wsgi = Unset
    /\ pc = "parse_request"
    /\ requests = <<>>
    /\ is_batch_mode = FALSE
    /\ idx = 1
    /\ responses = <<>>
    /\ calls = <<>>
    /\ emitted = <<>>
    /\ retval = Unset
    /\ raised = None
    /\ ClientIdle

\* JSONRPC20Serializer.parse_request(request_string)
ParseOnly ==
    /\ pc = "parse_request"
    /\ LET parsed == parse_request(request_string)
       IN  IF parsed.ok
           THEN /\ requests' = parsed.value[1]
                /\ is_batch_mode' = parsed.value[2]
                /\ pc' = "parsed"
                /\ UNCHANGED raised
           ELSE /\ raised' = parsed.ex
                /\ pc' = "parse_raised"
                /\ UNCHANGED <<requests, is_batch_mode>>
    /\ UNCHANGED <<request_string, app, registrations, idx, responses, calls, emitted, retval>>
    /\ UNCHANGED <<clientvars, wsgi>>

NextParse == ParseOnly

SpecParse == InitParse /\ [][NextParse]_vars

(* ---------------------------------- process_requests called on its own  *)

\* Parsed requests of a callable that reports its arguments, with every kind
\* of params, and of a callable that raises.
DispatchEnvelopes ==
    {Envelope(Str("describe"), p, i, None) :
        p \in {None, List(<<>>), List(<<Num(2), Num(3)>>), List(<<Num(3), Num(2)>>),
               Tuple(<<Num(2), Num(3)>>), EmptyDict, Dict([a |-> Num(1)])},
        i \in {None, Num(0), Str("x1")}}
    \cup {Envelope(Str("blow_up"), p, Str("x1"), None) :
              p \in {None, Dict([a |-> Num(1)])}}

InitDispatch ==
    /\ request_string = None
    /\ app = [n \in {"describe", "blow_up"} |-> n]
    /\ registrations = <<>>
    /\ wsgi = Unset
    /\ pc = "process_requests"
    /\ requests \in SeqsUpTo(DispatchEnvelopes, MaxBatch)
    /\ is_batch_mode = FALSE
    /\ idx = 1
    /\ responses = <<>>
    /\ calls = <<>>
    /\ emitted = <<>>
    /\ retval = Unset
    /\ raised = None
    /\ ClientIdle

\* process_requests returns its list of responses.
ProcessRequestsReturn ==
    /\ pc = "process_requests"
    /\ idx > Len(requests)
    /\ retval' = List(responses)
    /\ pc' = "processed"
    /\ UNCHANGED <<request_string, app, registrations, requests, is_batch_mode, idx, responses,
                   calls, emitted, raised>>
    /\ UNCHANGED <<clientvars, wsgi>>

NextDispatch == ProcessRequest \/ ProcessRequestsReturn

SpecDispatch == InitDispatch /\ [][NextDispatch]_vars

(* ------------------------------------------------- client.py: Client    *)

\* No application is involved.
AppIdle ==
    /\ request_string = None
    /\ app = [n \in {} |-> n]
    /\ registrations = <<>>
    /\ wsgi = Unset
    /\ pc = "client"
    /\ requests = <<>>
    /\ is_batch_mode = FALSE
    /\ idx = 1
    /\ responses = <<>>
    /\ calls = <<>>
    /\ emitted = <<>>
    /\ retval = Unset
    /\ raised = None

\* Calls made on one client or on the serializer in one exploration.
MaxCalls == 2

\* `with client:` blocks of one client open at the same time.
MaxDepth == 2
MaxRegistrations == 2

\* Method names: a name, the empty string, and a value that is no string.
ClientMethods == {Str("adder"), Str(""), Num(5)}
\* *args: none, two numbers, a set object.
ClientArgs == {Tuple(<<>>), Tuple(<<Num(2), Num(3)>>), Tuple(<<SetObject>>)}
\* **kw: none, one named argument.
ClientKw == {EmptyDict, Dict([a |-> Num(1)])}

InitClient ==
    /\ AppIdle
    /\ ClientIdle

\* The list object get_batched hands out, were it a copy of the buffer.
batched_copy(in_batch, buffer, depth) ==
    [list |-> IF in_batch THEN buffer ELSE <<>>, live |-> FALSE,
     depth |-> depth, taken |-> IF in_batch THEN Len(buffer) ELSE 0,
     closed |-> FALSE]

\* The list object get_batched hands out: self._requests itself in batch
\* mode, a new empty list otherwise.  `live` tells that the object is the one
\* self._requests is bound to; depth, taken and closed record the number of
\* `with` blocks open when it was handed out, its length then, and whether
\* the innermost of those blocks has ended since.
batched(in_batch, buffer, depth) ==
    [list |-> IF in_batch THEN buffer ELSE <<>>, live |-> in_batch,
     depth |-> depth, taken |-> IF in_batch THEN Len(buffer) ELSE 0,
     closed |-> FALSE]

\* self._requests.append(request) is seen through every reference to the
\* same list object.
held_after_append(request) ==
    [k \in 1..Len(held) |->
        IF held[k].live THEN [held[k] EXCEPT !.list = Append(@, request)]
        ELSE held[k]]

\* self._requests = [] binds the attribute to a new list: the lists handed
\* out before keep their elements and are no longer the buffer.
held_after_rebind(depth) ==
    [k \in 1..Len(held) |->
        [held[k] EXCEPT !.live = FALSE,
                        !.closed = @ \/ depth < held[k].depth]]

\* client_assemble without the test that rejects positional together with
\* keyword arguments.
client_assemble_without_exclusivity(method, args, kw, notification) ==
    IF ~Truthy(method)
    THEN Raise(Exception("ValueError",
             Str("JSON-RPC method call requires a method name.")))
    ELSE assemble_request(method,
                          IF Truthy(args) THEN args
                          ELSE IF Truthy(kw) THEN kw ELSE None,
                          notification, uuid_count + 1)

\* The part Client.call and Client.notify share: the argument checks and the
\* call of assemble_request.
client_assemble(method, args, kw, notification) ==
    IF Truthy(args) /\ Truthy(kw)
    THEN Raise(Exception("ValueError",
             Str("JSON-RPC method calls allow only either named or positional arguments.")))
    ELSE IF ~Truthy(method)
    THEN Raise(Exception("ValueError",
             Str("JSON-RPC method call requires a method name.")))
    ELSE assemble_request(method,
                          IF Truthy(args) THEN args
                          ELSE IF Truthy(kw) THEN kw ELSE None,
                          notification, uuid_count + 1)

\* What call and notify do with the outcome of client_assemble; returned is
\* what the method returns when a request was assembled.
client_finish(op, method, args, kw, built, returned) ==
    /\ history' = Append(history,
           [op |-> op, method |-> method, args |-> args, kw |-> kw,
            request |-> IF built.ok THEN built.value ELSE Unset,
            outcome |-> IF built.ok THEN Return(returned) ELSE built])
    /\ client_requests' = IF built.ok /\ in_batch_mode
                          THEN Append(client_requests, built.value)
                          ELSE client_requests
    /\ uuid_count' = IF built.ok /\ "id" \in DOMAIN built.value.v
                     THEN uuid_count + 1 ELSE uuid_count
    /\ scopes' = IF built.ok
                 THEN [k \in 1..Len(scopes) |-> Append(scopes[k], built.value)]
                 ELSE scopes
    /\ held' = IF built.ok /\ in_batch_mode
               THEN held_after_append(built.value) ELSE held
    /\ echo' = Unset
    /\ UNCHANGED <<in_batch_mode, fault, posted>>
    /\ UNCHANGED <<appvars, wsgi>>

\* Client.call(method, *args, **kw)
Client_call ==
    /\ pc = "client"
    /\ Len(history) < MaxCalls
    /\ \E method \in ClientMethods, args \in ClientArgs, kw \in ClientKw :
           LET built == client_assemble(method, args, kw, FALSE)
           IN  client_finish("call", method, args, kw, built,
                             IF in_batch_mode THEN Get(built.value, "id")
                             ELSE built.value)

\* Client.notify(method, *args, **kw)
Client_notify ==
    /\ pc = "client"
    /\ Len(history) < MaxCalls
    /\ \E method \in ClientMethods, args \in ClientArgs, kw \in ClientKw :
           LET built == client_assemble(method, args, kw, TRUE)
           IN  client_finish("notify", method, args, kw, built,
                             IF in_batch_mode THEN None ELSE built.value)

\* Client.__enter__: a `with client:` block begins, possibly inside another
\* one of the same client.
Client_enter ==
    /\ pc = "client"
    /\ Len(scopes) < MaxDepth
    /\ in_batch_mode' = TRUE
    /\ client_requests' = <<>>
    /\ scopes' = Append(scopes, <<>>)
    /\ held' = held_after_rebind(Len(scopes) + 1)
    /\ UNCHANGED <<uuid_count, history, echo, fault, posted>>
    /\ UNCHANGED <<appvars, wsgi>>

\* Client.__exit__: the innermost open `with client:` block ends.
Client_exit ==
    /\ pc = "client"
    /\ scopes # <<>>
    /\ in_batch_mode' = FALSE
    /\ client_requests' = <<>>
    /\ scopes' = SubSeq(scopes, 1, Len(scopes) - 1)
    /\ held' = held_after_rebind(Len(scopes) - 1)
    /\ UNCHANGED <<uuid_count, history, echo, fault, posted>>
    /\ UNCHANGED <<appvars, wsgi>>

\* Client.get_batched()
Client_get_batched ==
    /\ pc = "client"
    /\ Len(history) < MaxCalls
    /\ history' = Append(history,
           [op |-> "get_batched", method |-> None, args |-> Tuple(<<>>),
            kw |-> EmptyDict, request |-> Unset,
            outcome |-> Return(IF in_batch_mode THEN List(client_requests)
                               ELSE List(<<>>))])
    /\ held' = Append(held, batched(in_batch_mode, client_requests, Len(scopes)))
    /\ echo' = Unset
    /\ UNCHANGED <<in_batch_mode, client_requests, uuid_count, fault, posted,
                   scopes>>
    /\ UNCHANGED <<appvars, wsgi>>

\* The request the last call assembled, if it assembled one.
LastRequest == IF history = <<>> THEN Unset ELSE history[Len(history)].request

\* The last request is dumped to JSON text and the text is handed to
\* parse_request; echo is what parse_request returns or raises, or what dumps
\* raises.
DumpAndParseRequest ==
    /\ pc = "client"
    /\ LastRequest # Unset
    /\ echo = Unset
    /\ echo' = LET dumped == json_dumps(LastRequest)
               IN  IF dumped.ok THEN parse_request(dumped.value) ELSE dumped
    /\ UNCHANGED <<in_batch_mode, client_requests, uuid_count, history, fault, posted, scopes, held>>
    /\ UNCHANGED <<appvars, wsgi>>

NextClient ==
    Client_call \/ Client_notify \/ Client_enter \/ Client_exit
    \/ Client_get_batched \/ DumpAndParseRequest

SpecClient == InitClient /\ [][NextClient]_vars

(* ------------------------- the client's buffer and the lists handed out *)

\* Client.call(method) and Client.notify(method) without arguments.
Batched_call ==
    /\ pc = "client"
    /\ Len(history) < MaxCalls
    /\ \E method \in ClientMethods :
           LET built == client_assemble(method, Tuple(<<>>), EmptyDict, FALSE)
           IN  client_finish("call", method, Tuple(<<>>), EmptyDict, built,
                             IF in_batch_mode THEN Get(built.value, "id")
                             ELSE built.value)

Batched_notify ==
    /\ pc = "client"
    /\ Len(history) < MaxCalls
    /\ \E method \in ClientMethods :
           LET built == client_assemble(method, Tuple(<<>>), EmptyDict, TRUE)
           IN  client_finish("notify", method, Tuple(<<>>), EmptyDict, built,
                             IF in_batch_mode THEN None ELSE built.value)

NextBatched ==
    Batched_call \/ Batched_notify \/ Client_enter \/ Client_exit
    \/ Client_get_batched

SpecBatched == InitClient /\ [][NextBatched]_vars

(* ------------------------------- assemble_request called on its own     *)

\* method arguments: a string, a number, None.
AssembleMethods == {Str("adder"), Num(5), None}

\* params arguments: None, empty and non-empty sequences and mappings, and
\* values of other types, falsy (0, "") and truthy (5, "abc").
AssembleParams ==
    {None, List(<<>>), List(<<Num(2), Num(3)>>), Tuple(<<Num(2), Num(3)>>),
     EmptyDict, Dict([a |-> Num(1)]),
     Num(0), Str(""), Num(5), Str("abc")}

\* JSONRPC20Serializer.assemble_request(method, params, notification)
AssembleRequest ==
    /\ pc = "client"
    /\ Len(history) < MaxCalls
    /\ \E method \in AssembleMethods, params \in AssembleParams,
          notification \in BOOLEAN :
           LET built == assemble_request(method, params, notification,
                                         uuid_count + 1)
           IN  /\ history' = Append(history,
                      [op |-> "assemble_request", method |-> method,
                       params |-> params, notification |-> notification,
                       outcome |-> built])
               /\ uuid_count' = IF built.ok /\ "id" \in DOMAIN built.value.v
                                THEN uuid_count + 1 ELSE uuid_count
    /\ UNCHANGED <<in_batch_mode, client_requests, echo, fault, posted, scopes, held>>
    /\ UNCHANGED <<appvars, wsgi>>

NextAssemble == AssembleRequest

SpecAssemble == InitClient /\ [][NextAssemble]_vars

(* ------------------------------- a fault sent through the serializer    *)

\* Instances of the nine subclasses of RPCFault, with and without data,
\* request id and message of their own.
Faults ==
    {RPCFault(code, d, i, m) :
        code \in DOMAIN ERROR_CODE_CLASS_MAP,
        d \in {None, Num(0), Str("detail")},
        i \in {None, Num(0), Str("x1")},
        m \in {None, Str("custom")}}

InitErrors ==
    /\ AppIdle
    /\ in_batch_mode = FALSE
    /\ client_requests = <<>>
    /\ uuid_count = 0
    /\ history = <<>>
    /\ echo = Unset
    /\ fault \in Faults
    /\ posted = <<>>
    /\ scopes = <<>>
    /\ held = <<>>

\* The response assemble_error_response builds for the fault is dumped to
\* JSON text and the text is handed to parse_response; echo is what
\* parse_response returns or raises, or what dumps raises.
DumpAndParseErrorResponse ==
    /\ fault # None
    /\ echo = Unset
    /\ echo' = LET dumped == json_dumps(assemble_error_response(fault))
               IN  IF dumped.ok THEN parse_response(dumped.value) ELSE dumped
    /\ UNCHANGED <<in_batch_mode, client_requests, uuid_count, history, fault, posted, scopes, held>>
    /\ UNCHANGED <<appvars, wsgi>>

\* JSONRPC20Serializer.assemble_error_response(fault); retval is the
\* response object it returns.
AssembleErrorResponse ==
    /\ fault # None
    /\ retval = Unset
    /\ retval' = assemble_error_response(fault)
    /\ UNCHANGED <<request_string, app, registrations, pc, requests, is_batch_mode, idx,
                   responses, calls, emitted, raised>>
    /\ UNCHANGED <<clientvars, wsgi>>

NextErrors == DumpAndParseErrorResponse \/ AssembleErrorResponse

SpecErrors == InitErrors /\ [][NextErrors]_vars

(* ------------------------------------ parse_response called on its own  *)

\* The JSON object with the members that are not Absent.
ResponseObject(jsonrpc, id, result, error) ==
    LET all == [jsonrpc |-> jsonrpc, id |-> id, result |-> result,
                error |-> error]
    IN  Dict([k \in {n \in DOMAIN all : all[n] # Absent} |-> all[k]])

\* error members: none, falsy values, a string, objects without and with
\* code and message, with a defined code, an undefined number, a string
\* code and a code that is an array.
ErrorMembers ==
    {Absent, None, Num(0), Str("oops"), EmptyDict,
     Dict([code |-> Num(METHOD_NOT_FOUND)]),
     Dict([code |-> Num(METHOD_NOT_FOUND), message |-> Str("Method not found.")]),
     Dict([code |-> Num(METHOD_NOT_FOUND), message |-> Str("custom"),
           data |-> Str("detail")]),
     Dict([code |-> Num(99), message |-> Str("custom"), data |-> Str("detail")]),
     Dict([code |-> Str("E1"), message |-> Str("custom")]),
     Dict([code |-> List(<<Num(1)>>), message |-> Str("custom")])}

ResponseObjects ==
    {ResponseObject(j, i, r, e) :
        j \in {Absent, Str("2.0"), Str("1.0"), Num(2)},
        i \in {Absent, None, Num(0), Str("x1")},
        r \in {Absent, None, Num(0), Num(5)},
        e \in ErrorMembers}

\* Array elements: right and wrong response objects, and JSON values that
\* are no object.
ResponseElements ==
    {ResponseObject(Str("2.0"), Str("x1"), Num(5), Absent),
     ResponseObject(Str("2.0"), Str("x1"), Absent,
         Dict([code |-> Num(METHOD_NOT_FOUND), message |-> Str("Method not found.")])),
     ResponseObject(Str("2.0"), Absent, Num(5), Absent),
     ResponseObject(Str("2.0"), Num(0), Num(5),
         Dict([code |-> Num(99), message |-> Str("custom"), data |-> Str("detail")])),
     ResponseObject(Str("2.0"), Str("x1"), Absent,
         Dict([code |-> List(<<Num(1)>>), message |-> Str("custom")])),
     EmptyDict, Num(5), None}

ResponseStrings ==
    {NotJson, JsonText(Num(5)), JsonText(None), JsonText(Str("adder"))}
    \cup {JsonText(e) : e \in ResponseObjects}
    \cup {JsonText(List(q)) : q \in SeqsUpTo(ResponseElements, MaxBatch)}

\* request_string holds the response text handed to parse_response.
InitResponse ==
    /\ request_string \in ResponseStrings
    /\ app = [n \in {} |-> n]
    /\ registrations = <<>>
    /\ wsgi = Unset
    /\ pc = "parse_response"
    /\ requests = <<>>
    /\ is_batch_mode = FALSE
    /\ idx = 1
    /\ responses = <<>>
    /\ calls = <<>>
    /\ emitted = <<>>
    /\ retval = Unset
    /\ raised = None
    /\ ClientIdle

\* JSONRPC20Serializer.parse_response(response_string); echo is what it
\* returns or raises.
ParseResponseOnly ==
    /\ pc = "parse_response"
    /\ echo' = parse_response(request_string)
    /\ pc' = "response_parsed"
    /\ UNCHANGED <<request_string, app, registrations, requests, is_batch_mode, idx, responses,
                   calls, emitted, retval, raised>>
    /\ UNCHANGED <<in_batch_mode, client_requests, uuid_count, history, fault, posted, scopes, held, wsgi>>

NextResponse == ParseResponseOnly

SpecResponse == InitResponse /\ [][NextResponse]_vars

(* ------------------------------------------------ client.py: WebClient  *)

\* (method, *args, **kw) of a call: accepted, positional together with
\* keyword arguments, no method name.
WebCallInputs ==
    {<<Str("adder"), Tuple(<<Num(2), Num(3)>>), EmptyDict>>,
     <<Str("adder"), Tuple(<<Num(2), Num(3)>>), Dict([a |-> Num(1)])>>,
     <<Str(""), Tuple(<<>>), EmptyDict>>}

\* Response objects a server sends: a result, an error of a defined kind
\* with data, an error of an undefined kind without, and an error whose
\* message is the empty string.
WebResponses ==
    {ResponseObject(Str("2.0"), Str("x1"), r, Absent) : r \in {None, Num(5)}}
    \cup {ResponseObject(Str("2.0"), Str("x1"), Absent,
              Dict([code |-> Num(METHOD_NOT_FOUND), message |-> Str("custom"),
                    data |-> Str("detail")])),
          ResponseObject(Str("2.0"), Str("x1"), Absent,
              Dict([code |-> Num(99), message |-> Str("custom")])),
          ResponseObject(Str("2.0"), Str("x1"), Absent,
              Dict([code |-> Num(PERMISSION_DENIED), message |-> Str("")]))}

\* What requests.post gives back: a status code and a body.
Servers ==
    {[status_code |-> 200, body |-> JsonText(r)] : r \in WebResponses}
    \cup {[status_code |-> 200, body |-> NotJson],
          [status_code |-> 500, body |-> NotJson]}

\* web_response_outcome that builds the fault of a defined kind from the
\* data and the id alone, without the message of the error member.
web_response_outcome_dropping_message(response) ==
    IF response.t # "dict"
    THEN Raise(Exception("TypeError", Str("argument is not a dict")))
    ELSE IF "error" \in DOMAIN response.v
    THEN LET error == response.v["error"]
         IN  IF error.t # "dict"
             THEN Raise(Exception("AttributeError",
                       Str("object has no attribute 'get'")))
             ELSE LET code == Get(error, "code")
                  IN  IF code.t \in {"list", "dict"}
                      THEN Raise(Exception("TypeError", Str("unhashable type")))
                      ELSE IF code.t = "int" /\ code.v \in DOMAIN ERROR_CODE_CLASS_MAP
                      THEN Raise(RPCFault(code.v, Get(error, "data"),
                                          Get(response, "id"), None))
                      ELSE Raise(Exception("RPCError", Get(error, "message")))
    ELSE IF "result" \in DOMAIN response.v
    THEN Return(response.v["result"])
    ELSE Raise(Exception("KeyError", Str("result")))

\* WebClient.call after _communicate has returned json_rpc_response:
\* raises the fault or the RPCError made from the error member, or returns
\* the result member.  A response that is no dict fails in the `in` test or
\* in the subscript.
web_response_outcome(response) ==
    IF response.t # "dict"
    THEN Raise(Exception("TypeError", Str("argument is not a dict")))
    ELSE IF "error" \in DOMAIN response.v
    THEN LET error == response.v["error"]
         IN  IF error.t # "dict"
             THEN Raise(Exception("AttributeError",
                       Str("object has no attribute 'get'")))
             ELSE LET code == Get(error, "code")
                  IN  IF code.t \in {"list", "dict"}
                      THEN Raise(Exception("TypeError", Str("unhashable type")))
                      ELSE IF code.t = "int" /\ code.v \in DOMAIN ERROR_CODE_CLASS_MAP
                      THEN Raise(RPCFault(code.v, Get(error, "data"),
                                          Get(response, "id"),
                                          Get(error, "message")))
                      ELSE Raise(Exception("RPCError", Get(error, "message")))
    ELSE IF "result" \in DOMAIN response.v
    THEN Return(response.v["result"])
    ELSE Raise(Exception("KeyError", Str("result")))

\* WebClient._communicate(request_json, expect_response) against a server:
\* whether the body was posted, the response it read if it read one, and
\* what it returns or raises.
communicate(request_json, expect_response, server) ==
    LET dumped == json_dumps(request_json)
    IN  IF ~dumped.ok
        THEN [posted |-> <<>>, response |-> Unset, outcome |-> dumped]
        ELSE IF server.status_code # 200
        THEN [posted |-> <<dumped.value>>, response |-> Unset,
              outcome |-> Raise(Exception("AssertionError", Str("")))]
        ELSE IF ~expect_response
        THEN [posted |-> <<dumped.value>>, response |-> Unset,
              outcome |-> Return(None)]
        ELSE LET loaded == json_loads(server.body)
             IN  [posted |-> <<dumped.value>>,
                  response |-> IF loaded.ok THEN loaded.value ELSE Unset,
                  outcome |-> loaded]

\* WebClient.call and WebClient.notify: the method of Client, then
\* _communicate with what it returned, then for call the handling of the
\* response.
web_step(op, method, args, kw, notification, server) ==
    LET built == client_assemble(method, args, kw, notification)
        returned == IF ~in_batch_mode THEN built.value
                    ELSE IF notification THEN None
                    ELSE Get(built.value, "id")
        sent == communicate(returned, ~notification, server)
        outcome == IF ~built.ok THEN built
                   ELSE IF ~sent.outcome.ok \/ notification THEN sent.outcome
                   ELSE web_response_outcome(sent.outcome.value)
    IN  /\ history' = Append(history,
               [op |-> op, method |-> method, args |-> args, kw |-> kw,
                request |-> IF built.ok THEN built.value ELSE Unset,
                response |-> IF built.ok THEN sent.response ELSE Unset,
                outcome |-> outcome])
        /\ client_requests' = IF built.ok /\ in_batch_mode
                              THEN Append(client_requests, built.value)
                              ELSE client_requests
        /\ uuid_count' = IF built.ok /\ "id" \in DOMAIN built.value.v
                         THEN uuid_count + 1 ELSE uuid_count
        /\ scopes' = IF built.ok
                     THEN [k \in 1..Len(scopes) |-> Append(scopes[k], built.value)]
                     ELSE scopes
        /\ posted' = IF built.ok THEN posted \o sent.posted ELSE posted
        /\ held' = IF built.ok /\ in_batch_mode
                   THEN held_after_append(built.value) ELSE held
        /\ echo' = Unset
        /\ UNCHANGED <<in_batch_mode, fault>>
        /\ UNCHANGED <<appvars, wsgi>>

\* WebClient.call(method, *args, **kw)
WebClient_call ==
    /\ pc = "client"
    /\ Len(history) < MaxCalls
    /\ \E input \in WebCallInputs, server \in Servers :
           web_step("call", input[1], input[2], input[3], FALSE, server)

\* WebClient.notify(method, *args, **kw)
WebClient_notify ==
    /\ pc = "client"
    /\ Len(history) < MaxCalls
    /\ \E input \in WebCallInputs, server \in Servers :
           web_step("notify", input[1], input[2], input[3], TRUE, server)

NextWebClient ==
    WebClient_call \/ WebClient_notify \/ Client_enter \/ Client_exit

SpecWebClient == InitClient /\ [][NextWebClient]_vars

(* -------------------------- application.py: JSONPRCCollection registry  *)

\* The callables registered, each known by its __name__, and the name
\* argument of register_function: left out, empty, the name of one of the
\* callables, a name of its own.
RegisteredFunctions == {"adder", "blow_up"}
RegisterNames == {None, Str(""), Str("adder"), Str("math.add")}

\* Parsed requests for the names a callable can be registered under.
CollectionEnvelopes ==
    {Envelope(Str(m), List(<<Num(2), Num(3)>>), Str("x1"), None) :
        m \in {"adder", "blow_up", "math.add"}}

\* register_function that leaves an entry that exists as it is.
register_function_keeping_first(registry, function, name) ==
    LET key == IF Truthy(name) THEN name.v ELSE function
    IN  [n \in DOMAIN registry \cup {key} |->
            IF n \in DOMAIN registry THEN registry[n] ELSE function]

\* JSONPRCCollection.register_function(function, name) on the dict
\* `registry`: self[name] = function if name, else
\* self[function.__name__] = function.
register_function(registry, function, name) ==
    LET key == IF Truthy(name) THEN name.v ELSE function
    IN  [n \in DOMAIN registry \cup {key} |->
            IF n = key THEN function ELSE registry[n]]

InitCollection ==
    /\ request_string = None
    /\ app = [n \in {} |-> n]
    /\ registrations = <<>>
    /\ wsgi = Unset
    /\ pc = "process_requests"
    /\ requests \in SeqsUpTo(CollectionEnvelopes, MaxBatch)
    /\ is_batch_mode = FALSE
    /\ idx = 1
    /\ responses = <<>>
    /\ calls = <<>>
    /\ emitted = <<>>
    /\ retval = Unset
    /\ raised = None
    /\ ClientIdle

\* app.register_function(function, name), before or between the requests
\* process_requests works through.
RegisterFunction ==
    /\ pc = "process_requests"
    /\ Len(registrations) < MaxRegistrations
    /\ \E function \in RegisteredFunctions, name \in RegisterNames :
           /\ app' = register_function(app, function, name)
           /\ registrations' = Append(registrations,
                                      [function |-> function, name |-> name])
    /\ UNCHANGED <<request_string, pc, requests, is_batch_mode, idx, responses,
                   calls, emitted, retval, raised>>
    /\ UNCHANGED <<clientvars, wsgi>>

NextCollection == RegisterFunction \/ ProcessRequest

SpecCollection == InitCollection /\ [][NextCollection]_vars

(* --------------------------------- serializers.py: JSONRPC10Serializer   *)

\* errors.RPCInvalidRPC(...): the module errors defines no such name, so
\* evaluating the expression raises AttributeError before any fault is made.
RPCInvalidRPC ==
    Raise(Exception("AttributeError",
              Str("'module' object has no attribute 'RPCInvalidRPC'")))

\* JSONRPC10Serializer.assemble_request(method, params, id)
JSONRPC10_assemble_request(method, params, id) ==
    IF ~IsString(method)
    THEN Raise(Exception("TypeError",
             Str("\"method\" must be a string (or unicode string).")))
    ELSE IF params.t \notin {"tuple", "list"}
    THEN Raise(Exception("TypeError", Str("params must be a tuple/list.")))
    ELSE Return(Dict([method |-> method, params |-> params, id |-> id]))

\* JSONRPC10Serializer.assemble_notification_request(method, params)
JSONRPC10_assemble_notification_request(method, params) ==
    IF ~IsString(method)
    THEN Raise(Exception("TypeError",
             Str("\"method\" must be a string (or unicode string).")))
    ELSE IF params.t \notin {"tuple", "list"}
    THEN Raise(Exception("TypeError", Str("params must be a tuple/list.")))
    ELSE Return(Dict([method |-> method, params |-> params, id |-> None]))

\* JSONRPC10Serializer.assemble_response(result, id)
JSONRPC10_assemble_response(result, id) ==
    Dict([result |-> result, error |-> None, id |-> id])

\* JSONRPC10Serializer.assemble_error_response(error, id)
JSONRPC10_assemble_error_response(error, id) ==
    IF ~IsRPCFault(error)
    THEN Raise(Exception("ValueError", Str("error must be a RPCFault-instance.")))
    ELSE IF error.error_data = None
    THEN Return(Dict([result |-> None,
                      error |-> Dict([code |-> error.error_code,
                                      message |-> error.message]),
                      id |-> id]))
    ELSE Return(Dict([result |-> None,
                      error |-> Dict([code |-> error.error_code,
                                      message |-> error.message,
                                      data |-> error.error_data]),
                      id |-> id]))

\* JSONRPC10Serializer.parse_request(jsonrpc_message): returns the tuple
\* (method, params) for a notification and (method, params, id) for a
\* request, or raises.
JSONRPC10_parse_request(jsonrpc_message) ==
    LET loaded == json_loads(jsonrpc_message)
    IN  IF ~loaded.ok
        THEN Raise(RPCParseError(
                 PercentFormat(<<"No valid JSON. (", ")">>, loaded.ex.message).value,
                 None, None))
        ELSE LET data == loaded.value
             IN  IF data.t # "dict" THEN RPCInvalidRPC
                 ELSE IF "method" \notin DOMAIN data.v THEN RPCInvalidRPC
                 ELSE IF ~IsString(data.v["method"]) THEN RPCInvalidRPC
                 ELSE LET id == IF "id" \in DOMAIN data.v
                                THEN data.v["id"] ELSE None
                          params == IF "params" \in DOMAIN data.v
                                    THEN data.v["params"] ELSE Tuple(<<>>)
                      IN  IF params.t \notin {"list", "tuple"} THEN RPCInvalidRPC
                          ELSE IF Cardinality(DOMAIN data.v \cup {"id", "params"}) # 3
                          THEN RPCInvalidRPC
                          ELSE IF id = None
                          THEN Return(Tuple(<<data.v["method"], params>>))
                          ELSE Return(Tuple(<<data.v["method"], params, id>>))

\* The JSON object with the members that are not Absent.
Object10(method, params, id, extra) ==
    LET all == [method |-> method, params |-> params, id |-> id,
                jsonrpc |-> extra]
    IN  Dict([k \in {n \in DOMAIN all : all[n] # Absent} |-> all[k]])

\* 1.0 messages with every combination of a missing, a wrong and a right
\* method, params and id member, with and without a fourth member.
Objects10 ==
    {Object10(m, p, i, x) :
        m \in {Absent, Str("adder"), Str(""), None},
        p \in {Absent, None, Num(5), List(<<>>), List(<<Num(2), Num(3)>>),
               Dict([a |-> Num(1)])},
        i \in {Absent, None, Num(0), Num(7), Str("x1")},
        x \in {Absent, Str("2.0")}}

Strings10 ==
    {NotJson, JsonText(Num(5)), JsonText(None), JsonText(List(<<>>))}
    \cup {JsonText(e) : e \in Objects10}

InitParse10 ==
    /\ request_string \in Strings10
    /\ app = [n \in {"adder"} |-> n]
    /\ registrations = <<>>
    /\ wsgi = Unset
    /\ pc = "parse_request"
    /\ requests = <<>>
    /\ is_batch_mode = FALSE
    /\ idx = 1
    /\ responses = <<>>
    /\ calls = <<>>
    /\ emitted = <<>>
    /\ retval = Unset
    /\ raised = None
    /\ ClientIdle

\* JSONRPC10Serializer.parse_request(request_string); retval is the tuple it
\* returns, raised what it raises.
ParseOnly10 ==
    /\ pc = "parse_request"
    /\ LET parsed == JSONRPC10_parse_request(request_string)
       IN  IF parsed.ok
           THEN /\ retval' = parsed.value
                /\ pc' = "parsed"
                /\ UNCHANGED raised
           ELSE /\ raised' = parsed.ex
                /\ pc' = "parse_raised"
                /\ UNCHANGED retval
    /\ UNCHANGED <<request_string, app, registrations, requests, is_batch_mode, idx,
                   responses, calls, emitted>>
    /\ UNCHANGED <<clientvars, wsgi>>

NextParse10 == ParseOnly10

SpecParse10 == InitParse10 /\ [][NextParse10]_vars

(* ------------------- application.py with data_serializer=JSONRPC10Serializer *)

\* The characters a for loop over a method name yields.
Chars(s) ==
    CASE s = "" -> <<>>
      [] s = "adder" -> <<"a", "d", "d", "e", "r">>

InitApp10 ==
    /\ request_string \in Strings10
    /\ app = [n \in {"adder"} |-> n]
    /\ registrations = <<>>
    /\ wsgi = Unset
    /\ pc = "handle_request_string"
    /\ requests = <<>>
    /\ is_batch_mode = FALSE
    /\ idx = 1
    /\ responses = <<>>
    /\ calls = <<>>
    /\ emitted = <<>>
    /\ retval = Unset
    /\ raised = None
    /\ ClientIdle

\* The except clauses of handle_request_string with the 1.0 serializer:
\* ds.json_dumps(ds.assemble_error_response(...)), the id left at its default.
AnswerError10(ex) ==
    IF IsRPCFault(ex)
    THEN Finish(json_dumps(JSONRPC10_assemble_error_response(ex, None).value))
    ELSE LET text == WhileProcessing(ex)
         IN  IF text.ok
             THEN Finish(json_dumps(JSONRPC10_assemble_error_response(
                      RPCInternalError(text.value, None, None), None).value))
             ELSE Finish(text)

\* handle_request_string up to the call of process_requests:
\* `requests, is_batch_mode = ds.parse_request(request_string)` unpacks the
\* tuple the 1.0 parser returns into two names, which fails inside the try
\* statement for the 3-tuple of a request.
ParseRequest10 ==
    /\ pc = "handle_request_string"
    /\ LET parsed == JSONRPC10_parse_request(request_string)
       IN  IF ~parsed.ok
           THEN /\ AnswerError10(parsed.ex)
                /\ UNCHANGED <<requests, is_batch_mode>>
           ELSE IF Len(parsed.value.v) # 2
           THEN /\ AnswerError10(Exception("ValueError",
                                           Str("too many values to unpack")))
                /\ UNCHANGED <<requests, is_batch_mode>>
           ELSE /\ requests' = parsed.value.v[1]
                /\ is_batch_mode' = parsed.value.v[2]
                /\ pc' = "process_requests"
                /\ UNCHANGED <<retval, raised>>
    /\ UNCHANGED <<request_string, app, registrations, idx, responses, calls, emitted>>
    /\ UNCHANGED <<clientvars, wsgi>>

\* One iteration of the loop of process_requests over `requests`, which is
\* the method name: `for method, params, request_id, error in requests`
\* unpacks one character into four names and raises ValueError, outside any
\* try statement.
ProcessRequest10 ==
    /\ pc = "process_requests"
    /\ idx <= Len(Chars(requests.v))
    /\ raised' = Exception("ValueError", Str("need more than 1 value to unpack"))
    /\ pc' = "raised"
    /\ UNCHANGED <<request_string, app, registrations, requests, is_batch_mode, idx,
                   responses, calls, emitted, retval>>
    /\ UNCHANGED <<clientvars, wsgi>>

\* handle_request_string after process_requests has returned.
ReturnResponses10 ==
    /\ pc = "process_requests"
    /\ idx > Len(Chars(requests.v))
    /\ IF ~Truthy(List(responses))
       THEN retval' = None /\ pc' = "returned" /\ UNCHANGED raised
       ELSE LET dumped == IF Truthy(is_batch_mode) THEN json_dumps(List(responses))
                          ELSE json_dumps(responses[1])
            IN  IF dumped.ok THEN Finish(dumped)
                ELSE AnswerError10(Exception(dumped.ex.cls, dumped.ex.message))
    /\ UNCHANGED <<request_string, app, registrations, requests, is_batch_mode, idx,
                   responses, calls, emitted>>
    /\ UNCHANGED <<clientvars, wsgi>>

NextApp10 == ParseRequest10 \/ ProcessRequest10 \/ ReturnResponses10

SpecApp10 == InitApp10 /\ [][NextApp10]_vars

(* ----------------------- client.py with data_serializer=JSONRPC10Serializer *)

\* The part Client.call and Client.notify share, the serializer being
\* JSONRPC10Serializer: call passes (method, params) and leaves id at its
\* default 0; notify passes notification=True, a keyword the 1.0
\* assemble_request does not have.
client_assemble10(method, args, kw, notification) ==
    IF Truthy(args) /\ Truthy(kw)
    THEN Raise(Exception("ValueError",
             Str("JSON-RPC method calls allow only either named or positional arguments.")))
    ELSE IF ~Truthy(method)
    THEN Raise(Exception("ValueError",
             Str("JSON-RPC method call requires a method name.")))
    ELSE IF notification
    THEN Raise(Exception("TypeError",
             Str("assemble_request() got an unexpected keyword argument 'notification'")))
    ELSE JSONRPC10_assemble_request(method,
                                    IF Truthy(args) THEN args
                                    ELSE IF Truthy(kw) THEN kw ELSE None,
                                    Num(0))

\* What call and notify do with the outcome of client_assemble10; no id is
\* taken from uuid4.
client_finish10(op, method, args, kw, built, returned) ==
    /\ history' = Append(history,
           [op |-> op, method |-> method, args |-> args, kw |-> kw,
            request |-> IF built.ok THEN built.value ELSE Unset,
            outcome |-> IF built.ok THEN Return(returned) ELSE built])
    /\ client_requests' = IF built.ok /\ in_batch_mode
                          THEN Append(client_requests, built.value)
                          ELSE client_requests
    /\ scopes' = IF built.ok
                 THEN [k \in 1..Len(scopes) |-> Append(scopes[k], built.value)]
                 ELSE scopes
    /\ held' = IF built.ok /\ in_batch_mode
               THEN held_after_append(built.value) ELSE held
    /\ echo' = Unset
    /\ UNCHANGED <<in_batch_mode, uuid_count, fault, posted>>
    /\ UNCHANGED <<appvars, wsgi>>

\* Client(JSONRPC10Serializer).call(method, *args, **kw)
Client10_call ==
    /\ pc = "client"
    /\ Len(history) < MaxCalls
    /\ \E method \in ClientMethods, args \in ClientArgs, kw \in ClientKw :
           LET built == client_assemble10(method, args, kw, FALSE)
           IN  client_finish10("call", method, args, kw, built,
                               IF in_batch_mode THEN Get(built.value, "id")
                               ELSE built.value)

\* Client(JSONRPC10Serializer).notify(method, *args, **kw)
Client10_notify ==
    /\ pc = "client"
    /\ Len(history) < MaxCalls
    /\ \E method \in ClientMethods, args \in ClientArgs, kw \in ClientKw :
           LET built == client_assemble10(method, args, kw, TRUE)
           IN  client_finish10("notify", method, args, kw, built,
                               IF in_batch_mode THEN None ELSE built.value)

NextClient10 == Client10_call \/ Client10_notify \/ Client_enter \/ Client_exit

SpecClient10 == InitClient /\ [][NextClient10]_vars

(* ------------------- wsgiapplication.py: JSONPRCWSGIApplication          *)

\* Longest request body, and largest CONTENT_LENGTH, explored.
MaxLength == 3

Digits == <<"0", "1", "2", "3", "4", "5", "6", "7", "8", "9">>

\* long(x) of an integer or of a string of one digit.
long(x) ==
    IF x.t = "int" THEN x.v
    ELSE (CHOOSE d \in 1..Len(Digits) : Digits[d] = x.v) - 1

\* environ['CONTENT_LENGTH']: no such key, the empty string, a number as the
\* tests pass it, a string of digits as a server passes it.
ContentLengths ==
    {Absent, Str("")}
    \cup {Num(n) : n \in 0..MaxLength}
    \cup {Str(Digits[n + 1]) : n \in 0..MaxLength}

\* The request strings clients send: a call, a notification, text that is
\* no JSON.
WsgiRequestStrings ==
    {JsonText(Object(Str("2.0"), Str("adder"), List(<<Num(2), Num(3)>>), Num(1))),
     JsonText(Object(Str("2.0"), Str("adder"), List(<<Num(2), Num(3)>>), Absent)),
     NotJson}

\* The string s as n bytes on the wire; each byte knows its place.
Body(s, n) == [k \in 1..n |-> [of |-> s, at |-> k, last |-> k = n]]

\* The string a sequence of bytes read from the start of a body is: the
\* empty string, the whole string, or a truncated text, which is no JSON.
StrOf(bytes) ==
    IF bytes = <<>> THEN Str("")
    ELSE IF bytes[Len(bytes)].last THEN bytes[1].of
    ELSE NotJson

RECURSIVE join_reversed(_)
\* ''.join(reversed(chunks))
join_reversed(chunks) ==
    IF chunks = <<>> THEN <<>>
    ELSE join_reversed(Tail(chunks)) \o Head(chunks)

RECURSIVE join(_)
\* ''.join(chunks)
join(chunks) ==
    IF chunks = <<>> THEN <<>> ELSE Head(chunks) \o join(Tail(chunks))

\* The chunks input_stream.read(size) can return: with no size everything
\* that is left; with a size at most that many bytes, at least one unless
\* the size is 0 or the stream is at its end.
read(input_stream, size) ==
    IF size = None THEN {input_stream}
    ELSE LET most == IF size.v < Len(input_stream) THEN size.v
                     ELSE Len(input_stream)
         IN  IF most = 0 THEN {<<>>}
             ELSE {SubSeq(input_stream, 1, k) : k \in 1..most}

\* A request arrives: the application of the tests, a body on the input
\* stream and a CONTENT_LENGTH that may or may not be its length.
InitWsgi ==
    /\ request_string = None
    /\ app = [n \in Registered |-> n]
    /\ registrations = <<>>
    /\ pc = "handle_wsgi_request"
    /\ requests = <<>>
    /\ is_batch_mode = FALSE
    /\ idx = 1
    /\ responses = <<>>
    /\ calls = <<>>
    /\ emitted = <<>>
    /\ retval = None
    /\ raised = None
    /\ ClientIdle
    /\ \E given \in ContentLengths, s \in WsgiRequestStrings, n \in 0..MaxLength :
           wsgi = [environ |-> given, body |-> Body(s, n),
                   input_stream |-> Body(s, n), content_length |-> None,
                   chunk |-> <<>>, chunks |-> <<>>, asked |-> <<>>,
                   request_string |-> <<>>, start_response |-> Unset]

\* handle_wsgi_request up to the first read: content_length is taken from
\* the environment and converted when it is truthy.
WsgiContentLength ==
    /\ pc = "handle_wsgi_request"
    /\ wsgi' = [wsgi EXCEPT !.content_length =
                   IF wsgi.environ = Absent THEN None
                   ELSE IF Truthy(wsgi.environ) THEN Num(long(wsgi.environ))
                   ELSE wsgi.environ]
    /\ pc' = "get_next_chunk"
    /\ UNCHANGED <<request_string, app, registrations, requests, is_batch_mode,
                   idx, responses, calls, emitted, retval, raised>>
    /\ UNCHANGED clientvars

\* One call of get_next_chunk, the first or one made by the loop after it
\* has appended the chunk before.  read('') raises TypeError.
GetNextChunk ==
    /\ pc = "get_next_chunk"
    /\ wsgi.asked = <<>> \/ wsgi.chunk # <<>>
    /\ LET chunks == IF wsgi.asked = <<>> THEN wsgi.chunks
                     ELSE Append(wsgi.chunks, wsgi.chunk)
           size == wsgi.content_length
       IN  IF size.t = "str"
           THEN /\ raised' = Exception("TypeError",
                        Str("cannot concatenate 'str' and 'int' objects"))
                /\ pc' = "raised"
                /\ wsgi' = [wsgi EXCEPT !.asked = Append(@, size)]
           ELSE /\ \E chunk \in read(wsgi.input_stream, size) :
                       wsgi' = [wsgi EXCEPT
                           !.chunks = chunks,
                           !.chunk = chunk,
                           !.input_stream = SubSeq(@, Len(chunk) + 1, Len(@)),
                           !.content_length =
                               IF size = None THEN None
                               ELSE Num(size.v - Len(chunk)),
                           !.asked = Append(@, size)]
                /\ UNCHANGED <<pc, raised>>
    /\ UNCHANGED <<request_string, app, registrations, requests, is_batch_mode,
                   idx, responses, calls, emitted, retval>>
    /\ UNCHANGED clientvars

\* The loop has ended on an empty chunk: the chunks are joined and the
\* string is handed to handle_request_string.  wsgi.request_string is the
\* string byte by byte, request_string the text it is.
WsgiHandleRequestString ==
    /\ pc = "get_next_chunk"
    /\ wsgi.asked # <<>> /\ wsgi.chunk = <<>>
    /\ wsgi' = [wsgi EXCEPT !.request_string = join(wsgi.chunks)]
    /\ request_string' = StrOf(wsgi'.request_string)
    /\ pc' = "handle_request_string"
    /\ UNCHANGED <<app, registrations, requests, is_batch_mode, idx, responses,
                   calls, emitted, retval, raised>>
    /\ UNCHANGED clientvars

\* handle_request_string has returned: start_response is called and the
\* response body returned.
WsgiStartResponse ==
    /\ pc = "returned"
    /\ wsgi' = [wsgi EXCEPT !.start_response =
                   IF Truthy(retval)
                   THEN [status |-> "200 OK", content_type |-> "application/json",
                         length_of |-> retval, returned |-> <<retval>>]
                   ELSE [status |-> "200 OK", content_type |-> "text/plain",
                         length_of |-> Str(""), returned |-> <<>>]]
    /\ pc' = "responded"
    /\ UNCHANGED <<request_string, app, registrations, requests, is_batch_mode,
                   idx, responses, calls, emitted, retval, raised>>
    /\ UNCHANGED clientvars

NextWsgi ==
    WsgiContentLength \/ GetNextChunk \/ WsgiHandleRequestString
    \/ ParseRequest \/ ProcessRequest \/ ReturnResponses \/ WsgiStartResponse

SpecWsgi == InitWsgi /\ [][NextWsgi]_vars

(* ------------------------------------------------- what the claims read *)

RECURSIVE Flatten(_)
Flatten(seqs) == IF seqs = <<>> THEN <<>> ELSE Head(seqs) \o Flatten(Tail(seqs))

\* The items whose loop iteration has completed.
Processed == 1..Len(emitted)

\* The iteration of item `idx` raised out of process_requests.
RaisedInLoop == pc = "raised" /\ idx <= Len(requests)

\* process_requests has returned its list.
LoopReturned == pc \in {"process_requests", "returned", "raised"}
                /\ requests # <<>> /\ idx > Len(requests)

HasId(k) == requests[k].request_id # None

\* The calls of registered callables made for item k.
CallsFor(k) == {c \in 1..Len(calls) : calls[c].item = k}

IsErrorResponse(r, code) ==
    /\ "error" \in DOMAIN r.v
    /\ "result" \notin DOMAIN r.v
    /\ r.v["error"].v["code"] = Num(code)

\* C1: an item of process_requests with no id (absent or null) gets no
\* response entry, whatever happens to it: a parse-time error, an unregistered
\* method, a normal return, a Fault or any other exception; and the response
\* list holds nothing but the entries emitted for the items.
C1_NotificationSilence ==
    /\ responses = Flatten(emitted)
    /\ \A k \in Processed : ~HasId(k) => emitted[k] = <<>>
    /\ RaisedInLoop => HasId(idx)

\* A batch has been processed in which one notification carried a parse-time
\* error and another one's callable raised an exception that is no Fault.
C1_Witness ==
    /\ LoopReturned
    /\ \E j \in Processed : ~HasId(j) /\ requests[j].error # None
    /\ \E j \in Processed : ~HasId(j) /\ \E c \in CallsFor(j) :
           ~calls[c].outcome.ok /\ ~IsRPCFault(calls[c].outcome.ex)

\* C2: every item whose id is present and non-null (any string, any number)
\* gets exactly one response, whether it carries a parse-time error, names an
\* unregistered method, returns normally or raises.
C2_OneResponsePerRequest ==
    /\ \A k \in Processed : HasId(k) => Len(emitted[k]) = 1
    /\ ~RaisedInLoop

\* C3: every response holds exactly one of result and error, and its id is
\* the id of the request item that produced it.
C3_ResponseShape ==
    \A k \in Processed : \A n \in 1..Len(emitted[k]) :
        LET r == emitted[k][n]
        IN  /\ ("result" \in DOMAIN r.v) # ("error" \in DOMAIN r.v)
            /\ r.v["id"] = requests[k].request_id

\* The ids of the items that produced a reply, in input order.
RECURSIVE RepliedIds(_)
RepliedIds(k) ==
    IF k = 0 THEN <<>>
    ELSE RepliedIds(k - 1)
         \o (IF emitted[k] # <<>> THEN <<requests[k].request_id>> ELSE <<>>)

\* C4: the ids of the responses are exactly the ids of the items that produced
\* a reply, in input order, with no placeholder for a dropped notification; the
\* responses never outnumber the requests.
C4_ResponseOrder ==
    /\ [n \in 1..Len(responses) |-> responses[n].v["id"]] = RepliedIds(Len(emitted))
    /\ Len(responses) <= Len(requests)

\* The response lists item k can produce when it is processed alone.
Alone(k) ==
    LET item == requests[k]
    IN  IF Truthy(item.error) THEN {ErrorBranch(item)}
        ELSE IF item.method.v \notin DOMAIN app THEN {NotFoundBranch(item)}
        ELSE {InvokeBranch(item, o).value :
                 o \in {x \in CallOutcomes(app[item.method.v], ArgsOf(item.params),
                                           KwargsOf(item.params)) :
                           InvokeBranch(item, x).ok}}

\* C5: when an item carries a parse-time error or its method raises, every
\* other item still produces the response it produces when processed alone,
\* in the original relative order.
C5_PerItemIsolation ==
    /\ LoopReturned =>
           /\ Len(emitted) = Len(requests)
           /\ responses = Flatten(emitted)
           /\ \A k \in Processed : emitted[k] \in Alone(k)
    /\ RaisedInLoop =>
           \A k \in (1..Len(requests)) \ {idx} : Alone(k) \subseteq {<<>>}

\* C6: handle_request_string ends by returning a string or the no-content
\* signal; no exception escapes it.
C6_NoExceptionEscapes ==
    /\ pc # "raised"
    /\ pc = "returned" => retval = None \/ retval.t = "jsontext"

\* C7: a callable that raises an exception that is no Fault, for a request
\* with an id, yields exactly one error response with code -32603, the
\* request's id, and data that contains the exception's message.
C7_InternalError ==
    \A c \in 1..Len(calls) :
        LET k == calls[c].item
            o == calls[c].outcome
        IN  (~o.ok /\ ~IsRPCFault(o.ex) /\ HasId(k)) =>
                /\ k \in Processed
                /\ Len(emitted[k]) = 1
                /\ IsErrorResponse(emitted[k][1], INTERNAL_ERROR)
                /\ emitted[k][1].v["id"] = requests[k].request_id
                /\ LET e == emitted[k][1].v["error"].v
                   IN  /\ "data" \in DOMAIN e
                       /\ e["data"].t = "text"
                       /\ \E n \in 1..Len(e["data"].parts) :
                              e["data"].parts[n] = o.ex.message

\* C8: a callable that raises a Fault, for a request with an id, yields
\* exactly one error response carrying the fault's own code, message and data.
C8_FaultForwarded ==
    \A c \in 1..Len(calls) :
        LET k == calls[c].item
            o == calls[c].outcome
        IN  (~o.ok /\ IsRPCFault(o.ex) /\ HasId(k)) =>
                /\ k \in Processed
                /\ Len(emitted[k]) = 1
                /\ LET r == emitted[k][1]
                   IN  /\ "error" \in DOMAIN r.v /\ "result" \notin DOMAIN r.v
                       /\ r.v["error"].v["code"] = o.ex.error_code
                       /\ r.v["error"].v["message"] = o.ex.message
                       /\ IF o.ex.error_data = None
                          THEN "data" \notin DOMAIN r.v["error"].v
                          ELSE /\ "data" \in DOMAIN r.v["error"].v
                               /\ r.v["error"].v["data"] = o.ex.error_data

\* C9: a well-formed request of an unregistered method with an id yields
\* exactly one error response with code -32601 and that id, and invokes no
\* callable; without an id it yields no response.
C9_MethodNotFound ==
    \A k \in Processed :
        (requests[k].error = None /\ requests[k].method.v \notin DOMAIN app) =>
            /\ CallsFor(k) = {}
            /\ IF HasId(k)
               THEN /\ Len(emitted[k]) = 1
                    /\ IsErrorResponse(emitted[k][1], METHOD_NOT_FOUND)
                    /\ emitted[k][1].v["id"] = requests[k].request_id
               ELSE emitted[k] = <<>>

\* The message is JSON whose top-level value is an object or a non-empty array.
ParsesAtTopLevel ==
    /\ request_string.t = "jsontext"
    /\ \/ request_string.doc.t = "dict"
       \/ request_string.doc.t = "list" /\ request_string.doc.v # <<>>

\* C10: for a message that parses at the top level, handle_request_string
\* returns the no-content signal exactly when there are zero responses;
\* otherwise the JSON array of all responses in order for a top-level array,
\* and the single bare response object for a top-level object.
C10_ReturnShape ==
    (ParsesAtTopLevel /\ pc \in {"returned", "raised"}) =>
        /\ pc = "returned"
        /\ retval = None <=> responses = <<>>
        /\ responses # <<>> =>
               retval = JsonText(IF request_string.doc.t = "list"
                                 THEN Encode(List(responses))
                                 ELSE Encode(responses[1]))

\* C11: when the whole message cannot be parsed, handle_request_string
\* returns one serialized error response object (never an array) whose id is
\* null and invokes no method; the code is -32700 for text that is not JSON
\* and -32600 for JSON that is an empty array or neither array nor object.
C11_WholeMessageError ==
    (~ParsesAtTopLevel /\ pc # "handle_request_string") =>
        /\ pc = "returned"
        /\ calls = <<>>
        /\ retval.t = "jsontext"
        /\ retval.doc.t = "dict"
        /\ retval.doc.v["id"] = None
        /\ IsErrorResponse(retval.doc,
                           IF request_string.t = "jsontext"
                           THEN INVALID_REQUEST ELSE PARSE_ERROR)

\* handle_request_string has answered text that is not JSON.
C11_Witness ==
    /\ request_string = NotJson
    /\ pc = "returned"
    /\ IsErrorResponse(retval.doc, PARSE_ERROR)

\* The final serialization of a non-empty response list has failed.
FinalDumpFailed ==
    /\ pc \in {"returned", "raised"}
    /\ requests # <<>> /\ idx > Len(requests)
    /\ responses # <<>>
    /\ ~json_dumps(IF is_batch_mode THEN List(responses) ELSE responses[1]).ok

\* C12: when the final JSON serialization of the responses fails (a method
\* returned a value that cannot be serialized), handle_request_string returns
\* a serialized error response with code -32603 instead of raising.
C12_SerializationFallback ==
    FinalDumpFailed =>
        /\ pc = "returned"
        /\ retval.t = "jsontext"
        /\ retval.doc.t = "dict"
        /\ IsErrorResponse(retval.doc, INTERNAL_ERROR)

\* A batch whose responses include a list holding a set has been answered.
C12_Witness ==
    /\ FinalDumpFailed
    /\ is_batch_mode
    /\ \E c \in 1..Len(calls) : calls[c].outcome = Return(List(<<SetObject>>))

\* parse_request has returned or raised.
ParseDone == pc \in {"parsed", "parse_raised"}

\* The message is a JSON array with at least one element.
IsBatchText ==
    /\ request_string.t = "jsontext"
    /\ request_string.doc.t = "list"
    /\ request_string.doc.v # <<>>

RaisedFault(code) ==
    /\ pc = "parse_raised"
    /\ IsRPCFault(raised)
    /\ raised.error_code = Num(code)

\* C13: parse_request answers a non-empty top-level array with is_batch true
\* and one envelope per element in array order (also for one element), a
\* top-level object with is_batch false and exactly one envelope, an empty
\* array or any other JSON value with InvalidRequest, and text that is not
\* JSON with ParseError.
C13_BatchFlagFidelity ==
    ParseDone =>
        IF IsBatchText
        THEN /\ pc = "parsed"
             /\ is_batch_mode
             /\ Len(requests) = Len(request_string.doc.v)
             /\ \A k \in 1..Len(requests) :
                    LET e == request_string.doc.v[k]
                    IN  e.t = "dict" => requests[k].request_id = Get(e, "id")
        ELSE IF request_string.t = "jsontext" /\ request_string.doc.t = "dict"
        THEN /\ pc = "parsed"
             /\ ~is_batch_mode
             /\ Len(requests) = 1
        ELSE IF request_string.t = "jsontext"
        THEN RaisedFault(INVALID_REQUEST)
        ELSE RaisedFault(PARSE_ERROR)

\* C14: parse_request never fails as a whole because of one bad element of a
\* non-empty array, whatever JSON values the elements are.
C14_NoWholeBatchFailure ==
    (ParseDone /\ IsBatchText) => pc = "parsed"

\* The JSON value the k-th envelope was parsed from.
ElementOf(k) ==
    IF request_string.doc.t = "list" THEN request_string.doc.v[k]
    ELSE request_string.doc

\* jsonrpc or method is missing or no string, or jsonrpc is not "2.0".
BadRequestMembers(e) ==
    \/ "jsonrpc" \notin DOMAIN e.v
    \/ "method" \notin DOMAIN e.v
    \/ ~IsString(e.v["jsonrpc"])
    \/ ~IsString(e.v["method"])
    \/ e.v["jsonrpc"] # Str("2.0")

\* params is present but neither an array nor an object.
BadParamsMember(e) ==
    /\ "params" \in DOMAIN e.v
    /\ e.v["params"].t \notin {"list", "dict"}

IsErrorEnvelope(r, e, code) ==
    /\ r.method = None
    /\ r.params = None
    /\ IsRPCFault(r.error)
    /\ r.error.error_code = Num(code)
    /\ r.error.request_id \in {Get(e, "id"), None}
    /\ r.request_id = r.error.request_id

DescribedAs(params) ==
    CASE params.t = "dict" -> List(<<List(<<>>), params>>)
      [] params.t \in {"list", "tuple"} -> List(<<List(params.v), EmptyDict>>)
      [] OTHER -> List(<<List(<<>>), EmptyDict>>)

\* C16: for a well-formed request of a registered method, process_requests
\* invokes the callable once, with keyword arguments when params is a mapping,
\* with positional arguments in their given order when params is a sequence,
\* and with no arguments when params is absent; the value the callable
\* returns is the result of the emitted success response.
C16_ArgumentUnpacking ==
    /\ \A k \in Processed :
           (requests[k].error = None /\ requests[k].method.v \in DOMAIN app) =>
               Cardinality(CallsFor(k)) = 1
    /\ \A c \in 1..Len(calls) :
           LET k == calls[c].item
               params == requests[k].params
               o == calls[c].outcome
           IN  /\ calls[c].callable = app[requests[k].method.v]
               /\ params.t = "dict" =>
                      calls[c].kwargs = params /\ calls[c].args.v = <<>>
               /\ params.t \in {"list", "tuple"} =>
                      calls[c].args.v = params.v /\ calls[c].kwargs = EmptyDict
               /\ params = None =>
                      calls[c].args.v = <<>> /\ calls[c].kwargs = EmptyDict
               /\ calls[c].callable = "describe" => o = Return(DescribedAs(params))
               /\ (o.ok /\ k \in Processed /\ emitted[k] # <<>>) =>
                      /\ Len(emitted[k]) = 1
                      /\ "error" \notin DOMAIN emitted[k][1].v
                      /\ "result" \in DOMAIN emitted[k][1].v
                      /\ emitted[k][1].v["result"] = o.value

\* process_requests has returned the success responses of a call with the
\* positional arguments 3, 2 and of a call with the keyword argument a=1.
C16_Witness ==
    /\ pc = "processed"
    /\ Len(responses) = 2
    /\ \A n \in 1..2 : "result" \in DOMAIN responses[n].v
    /\ responses[1].v["result"] =
           List(<<List(<<Num(3), Num(2)>>), EmptyDict>>)
    /\ responses[2].v["result"] =
           List(<<List(<<>>), Dict([a |-> Num(1)])>>)

\* The params a call hands to assemble_request's caller as seen on the wire:
\* the positional arguments, else the keyword arguments, else nothing.
GivenParams(h) ==
    IF Truthy(h.args) THEN Encode(h.args)
    ELSE IF Truthy(h.kw) THEN Encode(h.kw) ELSE None

\* C17: for any method name and any positional or keyword arguments that
\* Client.call or Client.notify accepts, dumping the assembled request and
\* parsing it with parse_request yields exactly one envelope without error,
\* with the same method, the same params (absent when there are no
\* arguments) and the same id (absent or null for a notification).
C17_RequestRoundTrip ==
    echo # Unset =>
        LET h == history[Len(history)]
        IN  /\ echo.ok
            /\ Len(echo.value[1]) = 1
            /\ ~echo.value[2]
            /\ LET r == echo.value[1][1]
               IN  /\ r.error = None
                   /\ r.method = h.method
                   /\ r.params = GivenParams(h)
                   /\ r.request_id = Get(h.request, "id")
                   /\ h.op = "notify" <=> r.request_id = None

\* params is a sequence or a mapping with at least one element.
NonEmptyParams(params) ==
    \/ params.t \in {"list", "tuple"} /\ params.v # <<>>
    \/ params.t = "dict" /\ DOMAIN params.v # {}

\* The calls of assemble_request that returned a request.
Assembled == {n \in 1..Len(history) : history[n].outcome.ok}

\* C19: the object assemble_request returns has exactly the keys jsonrpc
\* (the string "2.0") and method, plus params exactly when non-empty params
\* were given (never for None, an empty list or an empty mapping), plus id
\* exactly when notification is false; the ids of different calls are
\* pairwise distinct.
C19_RequestKeys ==
    /\ \A n \in Assembled :
           LET h == history[n]
               r == h.outcome.value
           IN  /\ DOMAIN r.v =
                      {"jsonrpc", "method"}
                      \cup (IF NonEmptyParams(h.params) THEN {"params"} ELSE {})
                      \cup (IF ~h.notification THEN {"id"} ELSE {})
               /\ r.v["jsonrpc"] = Str("2.0")
               /\ r.v["method"] = h.method
               /\ NonEmptyParams(h.params) => r.v["params"] = h.params
    /\ \A n, m \in Assembled :
           (n # m /\ ~history[n].notification /\ ~history[m].notification) =>
               history[n].outcome.value.v["id"] # history[m].outcome.value.v["id"]

\* Two requests with ids have been assembled, the first from an empty list
\* of params and the second from a non-empty one.
C19_Witness ==
    /\ Len(history) = 2
    /\ Assembled = {1, 2}
    /\ history[1].params = List(<<>>) /\ ~history[1].notification
    /\ history[2].params = Tuple(<<Num(2), Num(3)>>) /\ ~history[2].notification

\* C20: assemble_request fails with a TypeError and returns no request
\* whenever method is no string, and whenever params is not None and is
\* neither a sequence nor a mapping, for every such params value.
C20_ArgumentTypeError ==
    \A n \in 1..Len(history) :
        LET h == history[n]
        IN  (\/ h.method.t # "str"
             \/ h.params # None /\ h.params.t \notin {"list", "tuple", "dict"}) =>
                /\ ~h.outcome.ok
                /\ h.outcome.ex.cls = "TypeError"

\* C18: for each of the nine error kinds, a fault of that kind that is
\* assembled into an error response, dumped and parsed with parse_response
\* comes back as one entry whose error is a fault of exactly the same kind
\* and the same code.
C18_ErrorMapping ==
    (fault # None /\ echo # Unset) =>
        /\ echo.ok
        /\ ~echo.value[2]
        /\ Len(echo.value[1]) = 1
        /\ LET entry == echo.value[1][1]
           IN  /\ entry.result = None
               /\ IsRPCFault(entry.error)
               /\ entry.error.cls = fault.cls
               /\ entry.error.error_code = fault.error_code

\* A permission-denied fault with a message of its own has come back from
\* parse_response as a permission-denied fault.
C18_Witness ==
    /\ fault # None
    /\ fault.cls = "RPCPermissionDenied"
    /\ fault.message = Str("custom")
    /\ echo # Unset
    /\ echo.ok
    /\ echo.value[1][1].error.cls = "RPCPermissionDenied"

\* C21: the error response assemble_error_response builds has the keys
\* jsonrpc, error and id; id is the fault's request_id, error.code the
\* fault's code, error.message the fault's message, and the error object has
\* a data member exactly when the fault's data is not null.
C21_ErrorResponseShape ==
    (fault # None /\ retval # Unset) =>
        /\ DOMAIN retval.v = {"jsonrpc", "error", "id"}
        /\ retval.v["jsonrpc"] = Str("2.0")
        /\ retval.v["id"] = fault.request_id
        /\ LET e == retval.v["error"].v
           IN  /\ e["code"] = fault.error_code
               /\ e["message"] = fault.message
               /\ IF fault.error_data = None
                  THEN DOMAIN e = {"code", "message"}
                  ELSE /\ DOMAIN e = {"code", "message", "data"}
                       /\ e["data"] = fault.error_data

\* The response of a fault whose data is the number 0 has been assembled.
C21_Witness ==
    /\ fault # None
    /\ fault.error_data = Num(0)
    /\ retval # Unset
    /\ "data" \in DOMAIN retval.v["error"].v

\* parse_response has returned or raised.
ResponseDone == pc = "response_parsed"

\* The response elements of the text, when it is an object or a non-empty
\* array.
ResponseElementsOf ==
    IF request_string.doc.t = "list" THEN request_string.doc.v
    ELSE <<request_string.doc>>

\* The k-th element has been captured as an entry that satisfies P.
EntryOf(k) == echo.value[1][k]

IsInvalidRequestEntry(entry) ==
    /\ entry.result = None
    /\ IsRPCFault(entry.error)
    /\ entry.error.error_code = Num(INVALID_REQUEST)

\* C22: parse_response captures an InvalidRequest fault for every response
\* element that has no id, that lacks jsonrpc or has a jsonrpc other than
\* "2.0", or that contains both a result and an error, whatever their
\* values; an element with only a result yields (result, id, no error).
C22_ResponseValidation ==
    (ResponseDone /\ ParsesAtTopLevel) =>
        \A k \in 1..Len(ResponseElementsOf) :
            LET e == ResponseElementsOf[k]
                has(m) == m \in DOMAIN e.v
            IN  e.t = "dict" =>
                    IF \/ ~has("id")
                       \/ ~has("jsonrpc")
                       \/ e.v["jsonrpc"] # Str("2.0")
                       \/ has("result") /\ has("error")
                    THEN echo.ok /\ IsInvalidRequestEntry(EntryOf(k))
                    ELSE (has("result") /\ ~has("error")) =>
                             /\ echo.ok
                             /\ EntryOf(k) = ResponseEntry(e.v["result"],
                                                            e.v["id"], None)

\* C23: parse_response applies the top-level rule of parse_request: a
\* non-empty array yields is_batch true with one entry per element in order,
\* a single object yields is_batch false with one entry, and an empty array
\* or any other JSON type fails with InvalidRequest.
C23_ResponseTopLevelRule ==
    (ResponseDone /\ request_string.t = "jsontext") =>
        IF IsBatchText
        THEN /\ echo.ok
             /\ echo.value[2]
             /\ Len(echo.value[1]) = Len(request_string.doc.v)
        ELSE IF request_string.doc.t = "dict"
        THEN /\ echo.ok
             /\ ~echo.value[2]
             /\ Len(echo.value[1]) = 1
        ELSE /\ ~echo.ok
             /\ IsRPCFault(echo.ex)
             /\ echo.ex.error_code = Num(INVALID_REQUEST)

\* C24: parse_response fails with a ParseError when the text is not valid
\* JSON, when it is JSON that is neither an array nor an object, and when it
\* is an empty array.
C24_ResponseParseError ==
    (ResponseDone /\ ~ParsesAtTopLevel) =>
        /\ ~echo.ok
        /\ IsRPCFault(echo.ex)
        /\ echo.ex.cls = "RPCParseError"
        /\ echo.ex.error_code = Num(PARSE_ERROR)

\* parse_response has refused an empty array.
C24_Witness ==
    /\ ResponseDone
    /\ request_string = JsonText(List(<<>>))
    /\ ~echo.ok
    /\ echo.ex.error_code = Num(PARSE_ERROR)

\* The element is a 2.0 response with an id, no truthy result, and an error
\* object with code and message whose code is none of the defined kinds.
HasUndefinedErrorCode(e) ==
    /\ e.t = "dict"
    /\ {"id", "jsonrpc", "error"} \subseteq DOMAIN e.v
    /\ e.v["jsonrpc"] = Str("2.0")
    /\ ~Truthy(Get(e, "result"))
    /\ e.v["error"].t = "dict"
    /\ {"code", "message"} \subseteq DOMAIN e.v["error"].v
    /\ ~(/\ e.v["error"].v["code"].t = "int"
         /\ e.v["error"].v["code"].v \in DOMAIN ERROR_CODE_CLASS_MAP)

\* C25: for an error object whose code is not one of the defined kinds,
\* parse_response captures a generic fault whose code and message are
\* exactly the code and message on the wire, with the error data and the
\* response id preserved.
C25_GenericFault ==
    (ResponseDone /\ ParsesAtTopLevel) =>
        \A k \in 1..Len(ResponseElementsOf) :
            LET e == ResponseElementsOf[k]
            IN  HasUndefinedErrorCode(e) =>
                    /\ echo.ok
                    /\ EntryOf(k).result = None
                    /\ EntryOf(k).request_id = e.v["id"]
                    /\ EntryOf(k).error =
                           [t |-> "RPCFault", cls |-> "RPCFault",
                            error_code |-> e.v["error"].v["code"],
                            message |-> e.v["error"].v["message"],
                            error_data |-> Get(e.v["error"], "data"),
                            request_id |-> e.v["id"]]

\* The call that this step has made, when it has made one.
CallMade == history' # history
ThisCall == history'[Len(history')]

\* This step is a call or a notify that returned.
Succeeded(op) == CallMade /\ ThisCall.op = op /\ ThisCall.outcome.ok

C27_Step ==
    scopes # <<>> =>
        /\ Succeeded("call") =>
               /\ client_requests' = Append(client_requests, ThisCall.request)
               /\ "id" \in DOMAIN ThisCall.request.v
               /\ ThisCall.outcome.value = ThisCall.request.v["id"]
        /\ Succeeded("notify") =>
               /\ client_requests' = Append(client_requests, ThisCall.request)
               /\ "id" \notin DOMAIN ThisCall.request.v

\* C27: inside a batch scope every successful Client.call appends exactly
\* one request to the end of the buffer and returns the id of that request,
\* and every successful Client.notify appends exactly one request that has
\* no id; so the buffer lists the requests in the order of the calls.
C27_BatchBuffering == [][C27_Step]_vars

C28_Step ==
    /\ Len(scopes') > Len(scopes) => in_batch_mode' /\ client_requests' = <<>>
    /\ Len(scopes') < Len(scopes) => ~in_batch_mode' /\ client_requests' = <<>>
    /\ (CallMade /\ ThisCall.op = "get_batched") =>
           ThisCall.outcome.value =
               IF scopes # <<>> THEN List(scopes[Len(scopes)]) ELSE List(<<>>)
    /\ (scopes = <<>> /\ (Succeeded("call") \/ Succeeded("notify"))) =>
           /\ ThisCall.outcome.value = ThisCall.request
           /\ client_requests' = client_requests
           /\ client_requests = <<>>

\* C28: entering a batch scope empties the buffer and turns batch mode on,
\* leaving it empties the buffer and turns batch mode off; get_batched
\* returns the requests made since the current scope began while inside a
\* scope and an empty sequence outside any scope; outside a scope call and
\* notify return the assembled request and buffer nothing.
C28_BatchLifecycle == [][C28_Step]_vars

C26_Step ==
    (CallMade /\ ThisCall.op \in {"call", "notify"}
              /\ Truthy(ThisCall.args) /\ Truthy(ThisCall.kw)) =>
        /\ ~ThisCall.outcome.ok
        /\ ThisCall.outcome.ex.cls = "ValueError"
        /\ ThisCall.request = Unset
        /\ UNCHANGED <<uuid_count, client_requests, in_batch_mode, posted>>

\* C26: call and notify, given both positional and keyword arguments, fail
\* with a ValueError before any effect: no id is generated, no request is
\* assembled, the batch buffer is left unchanged and nothing is handed to
\* the transport.
C26_RejectBeforeEffect == [][C26_Step]_vars

\* A call with both kinds of arguments has been rejected in a batch scope
\* whose buffer already held a request.
C26_Witness ==
    /\ Len(history) = 2
    /\ history[1].outcome.ok
    /\ Truthy(history[2].args) /\ Truthy(history[2].kw)
    /\ ~history[2].outcome.ok
    /\ in_batch_mode
    /\ Len(client_requests) = 1
    /\ Len(posted) = 1

\* The response is an object with a result and no error member, or with an
\* error object that has a number as code and a string as message.
AnswersWithResult(response) ==
    /\ response.t = "dict"
    /\ "result" \in DOMAIN response.v
    /\ "error" \notin DOMAIN response.v

AnswersWithError(response) ==
    /\ response.t = "dict"
    /\ "error" \in DOMAIN response.v
    /\ response.v["error"].t = "dict"
    /\ {"code", "message"} \subseteq DOMAIN response.v["error"].v
    /\ response.v["error"].v["code"].t = "int"
    /\ response.v["error"].v["message"].t = "str"

\* What WebClient.call did with the response of history entry h, the
\* message the raised error is to carry being given.
HandledAs(h, message) ==
    /\ AnswersWithResult(h.response) =>
           h.outcome = Return(h.response.v["result"])
    /\ AnswersWithError(h.response) =>
           LET error == h.response.v["error"]
               code == error.v["code"].v
           IN  /\ ~h.outcome.ok
               /\ h.outcome.ex.message = message
               /\ IF code \in DOMAIN ERROR_CODE_CLASS_MAP
                  THEN /\ IsRPCFault(h.outcome.ex)
                       /\ h.outcome.ex.cls = ERROR_CODE_CLASS_MAP[code]
                       /\ h.outcome.ex.error_code = Num(code)
                       /\ h.outcome.ex.error_data = Get(error, "data")
                       /\ h.outcome.ex.request_id = Get(h.response, "id")
                  ELSE /\ ~IsRPCFault(h.outcome.ex)
                       /\ h.outcome.ex.cls = "RPCError"

\* The calls of WebClient.call that read a response.
AnsweredCalls ==
    {n \in 1..Len(history) :
        /\ history[n].op = "call"
        /\ history[n].request # Unset
        /\ history[n].response # Unset}

StoredUnder(log, key, explicit) ==
    SelectSeq(log, LAMBDA r :
        (IF explicit[r.name] THEN r.name.v ELSE r.function) = key)

\* The registry the log of registrations leads to when the last registration
\* under a name wins and every other entry is left alone.
LastWins(log, explicit) ==
    LET keys == {IF explicit[log[k].name] THEN log[k].name.v ELSE log[k].function :
                    k \in 1..Len(log)}
    IN  [key \in keys |->
            LET under == StoredUnder(log, key, explicit)
            IN  under[Len(under)].function]

\* The registry is what the registrations lead to, before and after the
\* step, and a step that invokes a callable invokes the one registered under
\* the method at that time.
C30_Step(explicit) ==
    /\ app = LastWins(registrations, explicit)
    /\ app' = LastWins(registrations', explicit)
    /\ calls' # calls =>
           LET method == requests[idx].method.v
               under == StoredUnder(registrations, method, explicit)
           IN  /\ under # <<>>
               /\ calls'[Len(calls')].callable = under[Len(under)].function

C31_Codes ==
    {-32700, -32600, -32601, -32602, -32603, -32000, -32001, -32002, -32003}

\* C31: every defined error kind has a code that no other kind has, the
\* code-to-kind map has exactly one entry per defined kind (nine kinds with
\* the nine listed codes), and every code in the map has a default message;
\* the fault at hand is of the kind the map gives for its code.
C31_ErrorKinds ==
    LET map == ClassMapOf(FaultClasses)
    IN  /\ \A j, k \in 1..Len(FaultClasses) :
               FaultClasses[j].error_code = FaultClasses[k].error_code => j = k
        /\ Len(FaultClasses) = 9
        /\ DOMAIN map = C31_Codes
        /\ Cardinality(DOMAIN map) = Len(FaultClasses)
        /\ \A k \in 1..Len(FaultClasses) :
               map[FaultClasses[k].error_code] = FaultClasses[k].name
        /\ map = ERROR_CODE_CLASS_MAP
        /\ DOMAIN map \subseteq DOMAIN ERROR_MESSAGE
        /\ Cardinality(DOMAIN map) = Cardinality(DOMAIN ERROR_MESSAGE)
        /\ (fault # None /\ IsRPCFault(fault)) =>
               /\ fault.error_code.v \in DOMAIN map
               /\ fault.cls = map[fault.error_code.v]

\* A fault of the last kind of the map, built without a message of its own
\* and so carrying the default message of its code, has been assembled.
C31_Witness ==
    /\ fault # None
    /\ fault.cls = "RPCInvalidParamValues"
    /\ fault.error_code = Num(INVALID_PARAM_VALUES)
    /\ fault.message = Str(ERROR_MESSAGE[INVALID_PARAM_VALUES])
    /\ retval # Unset

\* The 1.0 parser has returned or raised.
ParseDone10 == pc \in {"parsed", "parse_raised"}

\* The message is an object whose method is a string and whose params, when
\* present, is an array.
RightMembers10 ==
    /\ request_string.t = "jsontext"
    /\ request_string.doc.t = "dict"
    /\ "method" \in DOMAIN request_string.doc.v
    /\ IsString(request_string.doc.v["method"])
    /\ "params" \in DOMAIN request_string.doc.v =>
           request_string.doc.v["params"].t = "list"

\* The message is an object with a top-level key other than method, params
\* and id.
ExtraMember10 ==
    /\ request_string.t = "jsontext"
    /\ request_string.doc.t = "dict"
    /\ DOMAIN request_string.doc.v \ {"method", "params", "id"} # {}

\* C32: parse_request of the 1.0 serializer treats an absent params as an
\* empty list and an absent id as null, reports a message whose id is null
\* as a notification and any other as a request with that id, and rejects
\* with an InvalidRequest fault every message that has a top-level key other
\* than method, params and id.
C32_LiberalParsing10 ==
    ParseDone10 =>
        /\ (RightMembers10 /\ ~ExtraMember10) =>
               LET doc == request_string.doc
                   params == IF "params" \in DOMAIN doc.v
                             THEN doc.v["params"].v ELSE <<>>
                   id == Get(doc, "id")
               IN  /\ pc = "parsed"
                   /\ retval.v[1] = doc.v["method"]
                   /\ retval.v[2].v = params
                   /\ IF id = None THEN Len(retval.v) = 2
                      ELSE Len(retval.v) = 3 /\ retval.v[3] = id
        /\ ExtraMember10 =>
               /\ pc = "parse_raised"
               /\ IsRPCFault(raised)
               /\ raised.cls = "RPCInvalidRequest"

\* The message is a well-formed 1.0 message for the registered method: an
\* object with exactly the members method, params and id, params an array.
WellFormed10 ==
    /\ RightMembers10
    /\ DOMAIN request_string.doc.v = {"method", "params", "id"}
    /\ request_string.doc.v["method"].v \in DOMAIN app

\* C33: a dispatcher constructed with the 1.0 serializer handles every
\* well-formed 1.0 message given to handle_request_string without raising:
\* the registered method is invoked with the positional params, a request
\* with a non-null id is answered with the 1.0 success response carrying the
\* method's return value and that id, and a notification (id null) is
\* answered with no content.
C33_Dispatch10 ==
    (WellFormed10 /\ pc \in {"returned", "raised"}) =>
        LET doc == request_string.doc
        IN  /\ pc = "returned"
            /\ Len(calls) = 1
            /\ calls[1].callable = app[doc.v["method"].v]
            /\ calls[1].args.v = doc.v["params"].v
            /\ IF doc.v["id"] = None
               THEN retval = None
               ELSE /\ calls[1].outcome.ok
                    /\ retval = JsonText(JSONRPC10_assemble_response(
                                     calls[1].outcome.value, doc.v["id"]))

\* The history entry is a call or a notification with a method name and
\* positional arguments or none.
Positional10(h) ==
    /\ h.op \in {"call", "notify"}
    /\ IsString(h.method)
    /\ Truthy(h.method)
    /\ ~Truthy(h.kw)

\* C34: a Client constructed with the 1.0 serializer builds messages in the
\* 1.0 shape {method, params, id}: call, with or without arguments, yields a
\* request with a fresh non-null id, and notify yields a message whose id is
\* null.
C34_Client10 ==
    \A n \in 1..Len(history) :
        Positional10(history[n]) =>
            /\ history[n].request # Unset
            /\ DOMAIN history[n].request.v = {"method", "params", "id"}
            /\ history[n].request.v["method"] = history[n].method
            /\ IF history[n].op = "notify"
               THEN history[n].request.v["id"] = None
               ELSE /\ history[n].request.v["id"] # None
                    /\ \A m \in 1..Len(history) :
                           (m # n /\ history[m].request # Unset) =>
                               history[m].request.v["id"] # history[n].request.v["id"]

\* The items of requests process_requests is to invoke a callable for, in
\* input order: no parse-time error and a registered method.
RECURSIVE InvocableUpTo(_)
InvocableUpTo(n) ==
    IF n = 0 THEN <<>>
    ELSE IF ~Truthy(requests[n].error) /\ requests[n].method.v \in DOMAIN app
    THEN Append(InvocableUpTo(n - 1), n)
    ELSE InvocableUpTo(n - 1)

\* C35: process_requests invokes the registered callable exactly once for
\* each well-formed item whose method is registered, notifications included,
\* in the input order of the items, and invokes no callable for an item that
\* carries a parse-time error or names an unregistered method; an exception
\* raised by one invocation does not stop the invocations of later items.
C35_InvocationOrder ==
    /\ pc = "process_requests" =>
           [k \in 1..Len(calls) |-> calls[k].item] = InvocableUpTo(idx - 1)
    /\ pc \in {"returned", "raised", "processed"} =>
           /\ [k \in 1..Len(calls) |-> calls[k].item] = InvocableUpTo(Len(requests))
           /\ \A k \in 1..Len(calls) :
                  calls[k].callable = app[requests[calls[k].item].method.v]

\* Every element of the sequence part occurs in the sequence whole.
HoldsAll(whole, part) ==
    \A k \in 1..Len(part) : \E j \in 1..Len(whole) : whole[j] = part[k]

C36_Step ==
    /\ in_batch_mode' <=> scopes' # <<>>
    /\ scopes' # <<>> => HoldsAll(client_requests', scopes'[Len(scopes')])
    /\ (scopes # <<>> /\ (Succeeded("call") \/ Succeeded("notify"))) =>
           /\ client_requests' # <<>>
           /\ client_requests'[Len(client_requests')] = ThisCall.request
    /\ (scopes # <<>> /\ CallMade /\ ThisCall.op = "get_batched") =>
           /\ ThisCall.outcome.value.t = "list"
           /\ HoldsAll(ThisCall.outcome.value.v, scopes[Len(scopes)])

\* C36: batch mode of a Client is on exactly while control is inside at
\* least one batch scope of that client: after an inner (nested) scope of
\* the same client exits, requests made in the still-open outer scope are
\* still buffered, and get_batched in the outer scope returns every request
\* made in the outer scope.
C36_NestedScopes == [][C36_Step]_vars

\* C37: everything a WebClient hands to its transport is one assembled
\* JSON-RPC request object (with the jsonrpc and method fields), in every
\* state of the client, including when call or notify is used inside a
\* batch scope of that WebClient.
C37_PostsRequests ==
    \A k \in 1..Len(posted) :
        /\ posted[k].t = "jsontext"
        /\ posted[k].doc.t = "dict"
        /\ {"jsonrpc", "method"} \subseteq DOMAIN posted[k].doc.v

\* C38: for a fault of any defined kind built with a custom message, data
\* and request id, assemble_error_response followed by parse_response (2.0)
\* recovers a fault with the same message, the same data and the same
\* request id.
C38_MessageRoundTrip ==
    (fault # None /\ fault.message = Str("custom") /\ echo # Unset) =>
        /\ echo.ok
        /\ Len(echo.value[1]) = 1
        /\ IsRPCFault(echo.value[1][1].error)
        /\ echo.value[1][1].error.message = fault.message
        /\ echo.value[1][1].error.error_data = fault.error_data
        /\ echo.value[1][1].error.request_id = fault.request_id


\* The step buffers a request: call or notify, in batch mode, appended it to
\* the client's own buffer.
Buffers(request) ==
    /\ Len(history') = Len(history) + 1
    /\ history'[Len(history')].op \in {"call", "notify"}
    /\ client_requests' = Append(client_requests, request)

\* C39: a sequence obtained from get_batched inside a batch scope keeps its
\* requests when the scope exits (no step ever removes or changes an element
\* of a sequence the caller holds, while leaving the scope empties the
\* client's own buffer), it holds the whole buffer when it is obtained, and a
\* request buffered later in the same scope is appended to it.
C39_Step ==
    /\ Len(held') >= Len(held)
    /\ \A k \in 1..Len(held) :
        /\ Len(held'[k].list) >= Len(held[k].list)
        /\ SubSeq(held'[k].list, 1, Len(held[k].list)) = held[k].list
        /\ \A request \in {client_requests'[j] : j \in 1..Len(client_requests')} :
              (/\ Buffers(request)
               /\ held[k].depth >= 1
               /\ held[k].depth = Len(scopes)
               /\ ~held[k].closed)
              => held'[k].list = Append(held[k].list, request)
    /\ (Len(held') = Len(held) + 1 /\ scopes # <<>>)
        => held'[Len(held')].list = client_requests
    /\ (Len(scopes') < Len(scopes)) => client_requests' = <<>>

C39_HeldSequence == [][C39_Step]_vars

\* C39 witness: the scope in which a sequence was obtained has ended, the
\* client's buffer is empty again, and the sequence holds a request that was
\* buffered after it was obtained.
C39_Witness ==
    \E k \in 1..Len(held) :
        /\ held[k].depth >= 1
        /\ held[k].closed
        /\ scopes = <<>>
        /\ client_requests = <<>>
        /\ Len(held[k].list) > held[k].taken


\* The environment gives a content length: a number, or a string of digits.
GivenLength == wsgi.environ.t = "int" \/ (wsgi.environ.t = "str" /\ wsgi.environ.v # "")

\* The number of bytes taken from the input stream so far.
BytesRead == Len(wsgi.body) - Len(wsgi.input_stream)

\* The step is a call of input_stream.read.
Reads == Len(wsgi'.asked) = Len(wsgi.asked) + 1

\* The step ends the read loop and hands the request string over.
HandsOver == pc = "get_next_chunk" /\ pc' = "handle_request_string"

\* C40: with a content length N in the environment, a read never asks for
\* more than N less the bytes already read, the bytes read never exceed N and
\* the remaining count is never negative; once the stream has returned an
\* empty chunk nothing more is read, once N bytes have been read no further
\* byte is asked for, and the loop ends only then; the request string handed
\* to handle_request_string is the chunks in the order they were read, which
\* is the start of the body.
C40_Step ==
    GivenLength =>
        LET N == long(wsgi.environ)
            read_before == BytesRead
            read_after == Len(wsgi'.body) - Len(wsgi'.input_stream)
        IN  /\ Reads =>
                  /\ wsgi'.asked[Len(wsgi'.asked)].t = "int"
                  /\ wsgi'.asked[Len(wsgi'.asked)].v >= 0
                  /\ wsgi'.asked[Len(wsgi'.asked)].v <= N - read_before
                  /\ Len(wsgi'.chunk) <= wsgi'.asked[Len(wsgi'.asked)].v
                  /\ wsgi.asked # <<>> => wsgi.chunk # <<>>
                  /\ read_before = N => wsgi'.chunk = <<>>
            /\ read_after <= N
            /\ wsgi'.content_length # None =>
                  /\ wsgi'.content_length.t = "int"
                  /\ wsgi'.content_length.v >= 0
                  /\ wsgi'.content_length.v = N - read_after
            /\ (pc = "get_next_chunk" /\ wsgi.asked # <<>> /\ wsgi.chunk = <<>>) =>
                  HandsOver
            /\ HandsOver =>
                  /\ wsgi.chunk = <<>>
                  /\ read_before = N \/ wsgi.input_stream = <<>>
                  /\ \A k \in 1..Len(wsgi.chunks) :
                        LET start == Len(join(SubSeq(wsgi.chunks, 1, k - 1)))
                        IN  wsgi.chunks[k] =
                                SubSeq(wsgi.body, start + 1, start + Len(wsgi.chunks[k]))
                  /\ wsgi'.request_string = SubSeq(wsgi.body, 1, read_before)
                  /\ request_string' = StrOf(SubSeq(wsgi.body, 1, read_before))

C40_ContentLength == [][C40_Step]_vars

\* C40 witness: the body is longer than the content length N, N bytes were
\* read in two chunks or more, and the request string has been handed over.
C40_Witness ==
    /\ GivenLength
    /\ pc \notin {"handle_wsgi_request", "get_next_chunk"}
    /\ Len(wsgi.chunks) >= 2
    /\ BytesRead = long(wsgi.environ)
    /\ wsgi.input_stream # <<>>
    /\ Len(wsgi.request_string) = BytesRead

====
